---------------------------- MODULE Spec2Model ----------------------------
(***************************************************************************)
(* A model of pifke.org/fastmatch: Generate builds, per key length, a      *)
(* chain of state machines (indexKeys / makeNextStateMachine), checks it   *)
(* for ambiguity (checkAmbiguity) and emits a matcher.  The emitted        *)
(* matcher is modelled by the control flow Generate writes, and is run on  *)
(* an input string by the action Match.                                    *)
(*                                                                         *)
(* Strings are sequences of runes (code points, all ASCII here, so byte    *)
(* and rune indexing agree).  Go maps are iterated in an arbitrary order:  *)
(* every map iteration of one Generate call follows an enumeration of the  *)
(* case map that the action draws.                                         *)
(***************************************************************************)
EXTENDS Integers, Sequences, FiniteSets, TLC

VARIABLES
    pc,         \* "start" | "generated" | "matched"
    origCases,  \* the caller's case map: key -> return expression
    flags,      \* the caller's flag list
    maxState,   \* the weight ceiling (package variable maxState)
    err,        \* what Generate returned: "nil", "BadFlags", "Ambiguous", "write", "panic"
    badFlags,   \* the ErrBadFlags value
    ambiguous,  \* the ErrAmbiguous value: a sequence of groups (sets of keys)
    prog,       \* the emitted matcher
    input,      \* the string the matcher was called with
    out,        \* what the matcher returned
    writer      \* the io.Writer w: which of the writes it receives it refuses

vars == <<pc, origCases, flags, maxState, err, badFlags, ambiguous, prog, input, out, writer>>

---------------------------------------------------------------------------
(* Bounds of the model *)

MaxKeyLen == 2
MaxKeys == 2
MaxInputLen == 3

(* Program constants *)

\* math.MaxUint64 is 2^64 - 1.  TLC's integers are 32 bits wide, so the
\* word is scaled to 2^30; no weight of a bounded case set comes near it.
MaxUint64 == 1073741823
UintMod == MaxUint64 + 1

\* Return expressions are strings of Go source.
Values == {"1", "2"}
NoneExpr == "0"     \* the caller's "none" expression
ZeroExpr == ""      \* what a Go map returns for a missing key

\* An io.Writer refuses the writes numbered in fails (the calls it receives
\* are counted from 1), or every write.
GoodWriter == [fails |-> {}, all |-> FALSE]
BadWriter == [fails |-> {}, all |-> TRUE]
Refuses(wr, n) == wr.all \/ n \in wr.fails

PANIC == "panic"    \* the matcher indexed its input out of range
FALL == "fall"      \* control left the length block without returning

---------------------------------------------------------------------------
(* Sequences and sets *)

Range(s) == { s[i] : i \in DOMAIN s }

Min(S) == CHOOSE x \in S : \A y \in S : x <= y

RECURSIVE SortSet(_)
SortSet(S) == IF S = {} THEN <<>> ELSE <<Min(S)>> \o SortSet(S \ {Min(S)})

Contains(s, x) == \E i \in DOMAIN s : s[i] = x

RECURSIVE reverseString(_)
reverseString(s) == IF s = <<>> THEN <<>> ELSE reverseString(Tail(s)) \o <<Head(s)>>

RECURSIVE Sum(_)
Sum(s) == IF s = <<>> THEN 0 ELSE (Head(s) + Sum(Tail(s))) % UintMod

Take(s, n) == SubSeq(s, 1, n)

SeqsUpTo(A, n) == UNION { [1..k -> A] : k \in 0..n }

RECURSIVE Perms(_)
Perms(S) ==
    IF S = {} THEN {<<>>}
    ELSE UNION { { <<x>> \o p : p \in Perms(S \ {x}) } : x \in S }

---------------------------------------------------------------------------
(* Flags (flags.go) *)

Insensitive == [kind |-> "Insensitive", runes |-> <<>>]
Normalize == [kind |-> "Normalize", runes |-> <<>>]
HasPrefix == [kind |-> "HasPrefix", runes |-> <<>>]
HasSuffix == [kind |-> "HasSuffix", runes |-> <<>>]
Equivalent(rs) == [kind |-> "Equivalent", runes |-> rs]
StopUpon(rs) == [kind |-> "StopUpon", runes |-> rs]
Ignore(rs) == [kind |-> "Ignore", runes |-> rs]
IgnoreExcept(rs) == [kind |-> "IgnoreExcept", runes |-> rs]

\* The fields of a Go Flag value.
FlagStop(f) == IF f.kind = "StopUpon" THEN f.runes ELSE <<>>
FlagIgnore(f) == IF f.kind = "Ignore" THEN f.runes ELSE <<>>
FlagIgnoreExcept(f) == IF f.kind = "IgnoreExcept" THEN f.runes ELSE <<>>
FlagEquivalent(f) == IF f.kind = "Equivalent" THEN f.runes ELSE <<>>

---------------------------------------------------------------------------
(* Rune equivalence (runes.go) *)

\* dedupedRuneEquivalents.set: a function rune -> set of runes.
EquivSet(equiv, r, rs) ==
    LET old == IF r \in DOMAIN equiv THEN equiv[r] ELSE {r}
    IN  [x \in DOMAIN equiv \cup {r} |-> IF x = r THEN old \cup rs ELSE equiv[x]]

\* The loop over 'a'..'z' of makeEquivalents: each pass calls set(lower, upper)
\* and set(upper, lower), and a set call touches the entry of its own rune
\* only, so the 52 calls are applied entry by entry.
SetInsensitive(equiv) ==
    LET other(x) == IF x >= 97 THEN 65 + (x - 97) ELSE 97 + (x - 65)
        letters == (97..122) \cup (65..90)
    IN  [x \in DOMAIN equiv \cup letters |->
            (IF x \in DOMAIN equiv THEN equiv[x] ELSE {x})
            \cup (IF x \in letters THEN {other(x)} ELSE {})]

RECURSIVE SetEquivalent(_, _, _)
SetEquivalent(equiv, rs, i) ==
    IF i > Len(rs) THEN equiv
    ELSE SetEquivalent(EquivSet(equiv, rs[i], Range(rs)), rs, i + 1)

RECURSIVE SeedEquivalents(_, _, _)
SeedEquivalents(equiv, fl, i) ==
    IF i > Len(fl) THEN equiv
    ELSE LET f == fl[i]
             e == IF f.kind = "Insensitive" THEN SetInsensitive(equiv)
                  ELSE IF f.kind = "Normalize" THEN equiv
                  ELSE IF Len(FlagEquivalent(f)) > 0
                       THEN SetEquivalent(equiv, f.runes, 1)
                  ELSE equiv
         IN  SeedEquivalents(e, fl, i + 1)

\* collapse without the populateTransience loop.
TransitiveSkipped(equiv, rm, seen) == rm

\* The populateTransience loop of collapse for one rune: every member's own
\* set is merged in until no member is unseen.
RECURSIVE Transitive(_, _, _)
Transitive(equiv, rm, seen) ==
    IF rm \subseteq seen THEN rm
    ELSE LET r2 == CHOOSE r \in rm : r \notin seen
             add == IF r2 \in DOMAIN equiv THEN equiv[r2] ELSE {}
         IN  Transitive(equiv, rm \cup add, seen \cup {r2})

collapse(equiv) == [r1 \in DOMAIN equiv |-> SortSet(Transitive(equiv, equiv[r1], {}))]

makeEquivalents(fl) == collapse(SeedEquivalents(<<>>, fl, 1))

lookup(equiv, r) == IF r \in DOMAIN equiv THEN equiv[r] ELSE <<r>>

isEquiv(equiv, r1, r2) == Contains(lookup(equiv, r1), r2)

\* Is r equivalent to a rune of one of the exclusion lists?
Excluded(equiv, r, exclude) ==
    \E i \in DOMAIN exclude : \E j \in DOMAIN exclude[i] : isEquiv(equiv, r, exclude[i][j])

\* expand without its exclusion lists.
expandAll(equiv, rs, exclude) ==
    SortSet(UNION { Range(lookup(equiv, rs[i])) : i \in DOMAIN rs })

expand(equiv, rs, exclude) ==
    SortSet(UNION { Range(lookup(equiv, rs[i])) :
                    i \in { j \in DOMAIN rs : ~Excluded(equiv, rs[j], exclude) } })

\* sort.Sort on a list of runes: the list in ascending order, with its
\* repetitions.
RECURSIVE InsertRune(_, _)
InsertRune(s, r) ==
    IF s = <<>> THEN <<r>>
    ELSE IF r <= Head(s) THEN <<r>> \o s
    ELSE <<Head(s)>> \o InsertRune(Tail(s), r)

RECURSIVE SortRunes(_)
SortRunes(s) == IF s = <<>> THEN <<>> ELSE InsertRune(SortRunes(Tail(s)), Head(s))

\* uniqueAtOffset without the seen map.
MarkSeenNever(rs, seen, i) == <<FALSE, seen>>

\* uniqueAtOffset: keys is the list in iteration order; offsets count from 0.
RECURSIVE MarkSeen(_, _, _)
MarkSeen(rs, seen, i) ==
    \* <<duplicate found, seen after the loop>>
    IF i > Len(rs) THEN <<FALSE, seen>>
    ELSE IF rs[i] \in seen THEN <<TRUE, seen>>
    ELSE MarkSeen(rs, seen \cup {rs[i]}, i + 1)

RECURSIVE UniqueFrom(_, _, _, _, _, _)
UniqueFrom(equiv, keys, offset, i, seen, runes) ==
    IF i > Len(keys) THEN runes
    ELSE IF Len(keys[i]) > offset
    THEN LET r == keys[i][offset + 1]
             m == MarkSeen(lookup(equiv, r), seen, 1)
         IN  UniqueFrom(equiv, keys, offset, i + 1, m[2],
                        IF m[1] THEN runes ELSE Append(runes, r))
    ELSE UniqueFrom(equiv, keys, offset, i + 1, seen, runes)

uniqueAtOffset(equiv, keys, offset) ==
    SortRunes(UniqueFrom(equiv, keys, offset, 1, {}, <<>>))

---------------------------------------------------------------------------
(* Generate, lines 494-541: the flag loop *)

NoBadFlags == [cannotCombine |-> {}, cannotStopIgnore |-> <<>>]

\* acc = [partialMatch, backwards, stop, ignore, ignoreExcept, bad]; the loop
\* returns as soon as two flags cannot be combined.
RECURSIVE FlagLoop(_, _, _)
FlagLoop(fl, i, acc) ==
    IF i > Len(fl) THEN acc
    ELSE
    LET f == fl[i]
        prefixBad == f.kind = "HasPrefix" /\ acc.backwards
        suffixBad == f.kind = "HasSuffix" /\ acc.partialMatch /\ ~acc.backwards
        a1 == IF f.kind = "HasPrefix" THEN [acc EXCEPT !.partialMatch = TRUE]
              ELSE IF f.kind = "HasSuffix"
                   THEN [acc EXCEPT !.partialMatch = TRUE, !.backwards = TRUE]
              ELSE acc
        a2 == [a1 EXCEPT !.stop = @ \o FlagStop(f)]
        ignoreBad == Len(FlagIgnore(f)) > 0 /\ Len(a2.ignoreExcept) > 0
        a3 == [a2 EXCEPT !.ignore = @ \o FlagIgnore(f)]
        exceptBad == Len(FlagIgnoreExcept(f)) > 0 /\ Len(a3.ignore) > 0
        a4 == [a3 EXCEPT !.ignoreExcept = @ \o FlagIgnoreExcept(f)]
    IN  IF prefixBad \/ suffixBad
        THEN [acc EXCEPT !.bad = {"HasPrefix", "HasSuffix"}]
        ELSE IF ignoreBad \/ exceptBad
        THEN [acc EXCEPT !.bad = {"Ignore", "IgnoreExcept"}]
        ELSE FlagLoop(fl, i + 1, a4)

\* The flag loop entered at the second flag.
ParseFlagsFromSecond(fl) ==
    FlagLoop(fl, 2, [partialMatch |-> FALSE, backwards |-> FALSE, stop |-> <<>>,
                     ignore |-> <<>>, ignoreExcept |-> <<>>, bad |-> {}])

ParseFlags(fl) ==
    FlagLoop(fl, 1, [partialMatch |-> FALSE, backwards |-> FALSE, stop |-> <<>>,
                     ignore |-> <<>>, ignoreExcept |-> <<>>, bad |-> {}])

\* Lines 526-537: the stop runes equivalent to an ignored rune, one entry per
\* offending pair, in the order of the two loops.
RECURSIVE StopIgnoreFrom(_, _, _, _, _)
StopIgnoreFrom(equiv, stop, ignore, i, j) ==
    IF i > Len(stop) THEN <<>>
    ELSE IF j > Len(ignore) THEN StopIgnoreFrom(equiv, stop, ignore, i + 1, 1)
    ELSE (IF isEquiv(equiv, stop[i], ignore[j]) THEN <<stop[i]>> ELSE <<>>)
         \o StopIgnoreFrom(equiv, stop, ignore, i, j + 1)

StopIgnore(equiv, stop, ignore) == StopIgnoreFrom(equiv, stop, ignore, 1, 1)

---------------------------------------------------------------------------
(* Generate, lines 549-602: the working case map *)

\* A key that is neither cut nor stripped.
mangleKeyWhole(key, stop, ignore, ignoreExcept) == key

\* Lines 560-587: the runes of key kept before the first stop rune.
RECURSIVE mangleKey(_, _, _, _)
mangleKey(key, stop, ignore, ignoreExcept) ==
    IF key = <<>> THEN <<>>
    ELSE LET r1 == Head(key)
         IN  IF Contains(stop, r1) THEN <<>>
             ELSE IF Len(ignoreExcept) > 0 /\ ~Contains(ignoreExcept, r1)
                  THEN mangleKey(Tail(key), stop, ignore, ignoreExcept)
             ELSE IF Len(ignoreExcept) = 0 /\ Contains(ignore, r1)
                  THEN mangleKey(Tail(key), stop, ignore, ignoreExcept)
             ELSE <<r1>> \o mangleKey(Tail(key), stop, ignore, ignoreExcept)

MapPut(m, k, v) == [x \in DOMAIN m \cup {k} |-> IF x = k THEN v ELSE m[x]]

MapAppend(m, k, v) ==
    [x \in DOMAIN m \cup {k} |->
        IF x = k THEN (IF k \in DOMAIN m THEN m[k] ELSE <<>>) \o <<v>> ELSE m[x]]

\* w = [cases, backToOrig, mapped, order]; ord enumerates origCases in
\* iteration order, and order the keys of cases as they were first written.
\* Lines 555-590 (mangling) record the key after it was reversed;
\* lines 595-599 (HasSuffix alone) record the key as the caller wrote it.
RECURSIVE WorkingCases(_, _, _, _, _)
WorkingCases(oc, ord, fs, i, w) ==
    IF i > Len(ord) THEN w
    ELSE
    LET mangling == Len(fs.stop) > 0 \/ Len(fs.ignore) > 0 \/ Len(fs.ignoreExcept) > 0
        key == IF mangling /\ fs.backwards THEN reverseString(ord[i]) ELSE ord[i]
        newKey == IF mangling THEN mangleKey(key, fs.stop, fs.ignore, fs.ignoreExcept)
                  ELSE reverseString(key)
    IN  WorkingCases(oc, ord, fs, i + 1,
            [cases |-> MapPut(w.cases, newKey, oc[ord[i]]),
             backToOrig |-> MapAppend(w.backToOrig, newKey, key),
             mapped |-> TRUE,
             order |-> IF newKey \in DOMAIN w.cases THEN w.order ELSE Append(w.order, newKey)])

\* backToOrig stays nil (mapped = FALSE) when cases is origCases itself.
makeCases(oc, ord, fs) ==
    IF Len(fs.stop) > 0 \/ Len(fs.ignore) > 0 \/ Len(fs.ignoreExcept) > 0 \/ fs.backwards
    THEN WorkingCases(oc, ord, fs, 1,
            [cases |-> <<>>, backToOrig |-> <<>>, mapped |-> FALSE, order |-> <<>>])
    ELSE [cases |-> oc, backToOrig |-> <<>>, mapped |-> FALSE, order |-> ord]

---------------------------------------------------------------------------
(* The state machine (state.go) *)

\* uint64 arithmetic
Add64(a, b) == (a + b) % UintMod
Sub64(a, b) == (a - b + UintMod) % UintMod

MapGet(m, k, default) == IF k \in DOMAIN m THEN m[k] ELSE default

\* A stateMachine value.  possible, changes and noMore hold the entries
\* written so far; collapsed lists <<before, after>> in insertion order, where
\* before is the finalString of the predecessor (its non-zero weights).
newStateMachine(keys) ==
    [next |-> 1, base |-> 1, offset |-> 0,
     final |-> [k \in keys |-> <<>>],
     possible |-> <<>>, changes |-> <<>>, noMore |-> <<>>,
     collapsed |-> <<>>]

finalState(state, key) == Sum(state.final[key])

NonZero(w) == w # 0
finalString(state, key) == SelectSeq(state.final[key], NonZero)

\* The keys of state.final in iteration order.
InOrder(ko, S) == SelectSeq(ko, LAMBDA k : k \in S)
KeysOf(state, ko) == InOrder(ko, DOMAIN state.final)

LongestKey(keys) ==
    IF keys = <<>> THEN 0
    ELSE CHOOSE n \in { Len(keys[i]) : i \in DOMAIN keys } :
            \A i \in DOMAIN keys : Len(keys[i]) <= n

\* A machine whose noMore entries are not visited.
foreachNoMoreNone(state) == {}

foreachNoMore(state) ==
    UNION { UNION { Range(state.noMore[i][r]) : r \in DOMAIN state.noMore[i] } :
            i \in DOMAIN state.noMore }

\* The capacity of a slice made with capacity c once it holds n elements
\* appended one at a time.
RECURSIVE GrowCap(_, _)
GrowCap(c, n) == IF n <= c THEN c ELSE GrowCap(IF c = 0 THEN 1 ELSE 2 * c, n)

\* s[:n] of a slice of length Len(s): the elements past the length, up to
\* the capacity, read as zero.
RECURSIVE Zeros(_)
Zeros(n) == IF n <= 0 THEN <<>> ELSE <<0>> \o Zeros(n - 1)
Reslice(s, n) == IF n <= Len(s) THEN Take(s, n) ELSE s \o Zeros(n - Len(s))

\* makeNextStateMachine, lines 110-137: acc = [state, cont, panic].
RECURSIVE CollapseKeys(_, _, _, _, _, _)
CollapseKeys(keys, i, finished, offset, realOffset, acc) ==
    IF i > Len(keys) \/ acc.panic THEN acc
    ELSE IF keys[i] \in finished
    THEN CollapseKeys(keys, i + 1, finished, offset, realOffset, acc)
    ELSE
    LET key == keys[i]
        n == IF acc.state.offset = 0 THEN offset ELSE offset + 1
        old == acc.state.final[key]
        bad == n > GrowCap(Len(key), Len(old)) \/ Len(key) - realOffset + 1 < 0
        st == [acc.state EXCEPT !.final[key] = Reslice(old, n)]
        before == finalString(st, key)
        found == { j \in DOMAIN acc.cont.collapsed : acc.cont.collapsed[j][1] = before }
        after == IF found = {} THEN acc.cont.next
                 ELSE acc.cont.collapsed[CHOOSE j \in found : TRUE][2]
        cont == [acc.cont EXCEPT
                    !.next = IF found = {} THEN Add64(@, 1) ELSE @,
                    !.collapsed = IF found = {} THEN Append(@, <<before, after>>) ELSE @,
                    !.final = MapPut(@, key, <<after>>)]
    IN  IF bad THEN [acc EXCEPT !.panic = TRUE]
        ELSE CollapseKeys(keys, i + 1, finished, offset, realOffset,
                          [state |-> st, cont |-> cont, panic |-> FALSE])

\* state holds the entries of the offsets before realOffset only (the
\* truncation of lines 91-93).
makeNextStateMachine(state, realOffset, keys) ==
    LET offset == realOffset - state.offset
        cont0 == [next |-> 1, base |-> 0, offset |-> realOffset, final |-> <<>>,
                  possible |-> <<>>, changes |-> <<>>, noMore |-> <<>>,
                  collapsed |-> <<>>]
        r == CollapseKeys(keys, 1, foreachNoMore(state), offset, realOffset,
                          [state |-> state, cont |-> cont0, panic |-> FALSE])
    IN  IF offset < 1
        THEN [state |-> state, cont |-> cont0, panic |-> TRUE]
        ELSE [r EXCEPT !.cont.base = r.cont.next]

\* Lines 171-192 of indexKeys: the runes possible at realOffset, from the
\* i-th on.  acc = [state, changes, needShift, overflow].
\* indexKeys without the appends to state.final.
AppendFinalSkipped(final, ks, w) == final

AppendFinal(final, ks, w) ==
    [k \in DOMAIN final |-> IF k \in ks THEN Append(final[k], w) ELSE final[k]]

RECURSIVE AssignWeights(_, _, _, _, _, _, _, _)
AssignWeights(ceiling, equiv, partialMatch, keys, realOffset, poss, i, acc) ==
    IF i > Len(poss) \/ acc.overflow THEN acc
    ELSE
    LET r == poss[i]
        ks == { k \in Range(keys) :
                    /\ ~(partialMatch /\ realOffset >= Len(k) - 1)
                    /\ isEquiv(equiv, k[realOffset + 1], r) }
        st == [acc.state EXCEPT !.final = AppendFinal(@, ks, acc.state.next)]
    IN  IF ks = {}
        THEN AssignWeights(ceiling, equiv, partialMatch, keys, realOffset, poss, i + 1, acc)
        ELSE IF st.base > Sub64(ceiling, st.next)
        THEN [acc EXCEPT !.state = st, !.overflow = TRUE]
        ELSE AssignWeights(ceiling, equiv, partialMatch, keys, realOffset, poss, i + 1,
                [state |-> [st EXCEPT !.next = Add64(@, st.base)],
                 changes |-> MapPut(acc.changes, r, st.next),
                 needShift |-> TRUE,
                 overflow |-> FALSE])

\* Lines 204-213: noMore at realOffset.
NoMoreAt(equiv, partialMatch, keys, realOffset, poss) ==
    IF ~partialMatch THEN <<>>
    ELSE LET ends(r) == SelectSeq(keys, LAMBDA k :
                            /\ Len(k) - 1 = realOffset
                            /\ isEquiv(equiv, k[realOffset + 1], r))
         IN  [r \in { x \in Range(poss) : ends(x) # <<>> } |-> ends(r)]

\* indexKeys from realOffset on: the chain of machines, first machine first.
RECURSIVE IndexFrom(_, _, _, _, _, _, _)
IndexFrom(state, ceiling, equiv, partialMatch, ko, realOffset, needShift) ==
    LET keys == KeysOf(state, ko)
        poss == uniqueAtOffset(equiv, keys, realOffset)
        shifted == IF needShift THEN [state EXCEPT !.base = state.next] ELSE state
        a == AssignWeights(ceiling, equiv, partialMatch, keys, realOffset, poss, 1,
                [state |-> shifted, changes |-> <<>>, needShift |-> FALSE,
                 overflow |-> FALSE])
        nx == makeNextStateMachine(a.state, realOffset, keys)
        rest == IndexFrom(nx.cont, ceiling, equiv, partialMatch, ko, realOffset, TRUE)
        zeroed == [state EXCEPT !.final = AppendFinal(@, Range(keys), 0)]
        st == IF Len(poss) > 1 THEN a.state ELSE zeroed
        done == [st EXCEPT
                    !.possible = Append(@, poss),
                    !.changes = Append(@, IF Len(poss) > 1 THEN a.changes ELSE <<>>),
                    !.noMore = Append(@, NoMoreAt(equiv, partialMatch, keys, realOffset, poss))]
    IN  IF realOffset >= LongestKey(keys)
        THEN [chain |-> <<state>>, panic |-> LongestKey(keys) < state.offset]
        ELSE IF Len(poss) > 1 /\ a.overflow
        THEN IF nx.panic THEN [chain |-> <<nx.state>>, panic |-> TRUE]
             ELSE [chain |-> <<nx.state>> \o rest.chain, panic |-> rest.panic]
        ELSE IndexFrom(done, ceiling, equiv, partialMatch, ko, realOffset + 1,
                       IF Len(poss) > 1 THEN a.needShift ELSE needShift)

indexKeys(state, ceiling, equiv, partialMatch, ko) ==
    IndexFrom(state, ceiling, equiv, partialMatch, ko, state.offset, TRUE)

---------------------------------------------------------------------------
(* remove and deleteKey (state.go) *)

RECURSIVE RemoveFrom(_, _, _)
RemoveFrom(a, s, n) ==
    \* n counts from 1; after a removal the loop still steps to n + 1
    IF n > Len(a) THEN a
    ELSE IF a[n] = s
    THEN RemoveFrom(SubSeq(a, 1, n - 1) \o SubSeq(a, n + 1, Len(a)), s, n + 1)
    ELSE RemoveFrom(a, s, n + 1)

remove(a, s) == RemoveFrom(a, s, 1)

\* An emptied noMore list stays in its map as nil.
deleteKey(state, key) ==
    [state EXCEPT
        !.final = [k \in DOMAIN @ \ {key} |-> @[k]],
        !.noMore = [i \in DOMAIN @ |-> [r \in DOMAIN @[i] |-> remove(@[i][r], key)]]]

---------------------------------------------------------------------------
(* Ambiguity (ambiguity.go) *)

\* ErrAmbiguous.add: e is the sequence of groups e.keys.
OrigKeys(backToOrig, mapped, keys) ==
    UNION { IF mapped /\ k \in DOMAIN backToOrig THEN Range(backToOrig[k]) ELSE {k} :
            k \in keys }

ErrAdd(e, backToOrig, mapped, keys) ==
    LET origKeys == OrigKeys(backToOrig, mapped, keys)
        hit == { n \in DOMAIN e : e[n] \cap origKeys # {} }
    IN  IF hit # {}
        THEN [e EXCEPT ![Min(hit)] = @ \cup origKeys]
        ELSE Append(e, origKeys)

\* checkAmbiguity, lines 265-277: keys that were mangled to one key.
RECURSIVE MangledAmbiguity(_, _, _, _, _)
MangledAmbiguity(oc, backToOrig, mk, i, e) ==
    IF i > Len(mk) THEN e
    ELSE LET keys == backToOrig[mk[i]]
             rets == { MapGet(oc, keys[j], ZeroExpr) : j \in DOMAIN keys }
         IN  MangledAmbiguity(oc, backToOrig, mk, i + 1,
                IF Len(keys) > 1 /\ Cardinality(rets) > 1
                THEN ErrAdd(e, <<>>, FALSE, Range(keys)) ELSE e)

\* indexNoMore: the entries <<sum, r, ret, key>> of the disambiguation index.
NoMoreTriples(state) ==
    UNION { UNION { { <<i, r, state.noMore[i][r][j]>> : j \in DOMAIN state.noMore[i][r] } :
                    r \in DOMAIN state.noMore[i] } : i \in DOMAIN state.noMore }

finalIdx(state, key) == IF state.offset = 0 THEN Len(key) - 1 ELSE Len(key) - state.offset
changesIdx(state, key) == IF state.offset = 0 THEN Len(key) - 1 ELSE Len(key) - state.offset - 1

\* The longer keys that run through the same intermediate state and rune.
Longer(state, key) == { o \in DOMAIN state.final : Len(o) > Len(key) }

SameState(state, key, r, other) ==
    LET values == state.final[other]
        fi == finalIdx(state, key)
        ci == changesIdx(state, key)
    IN  /\ values[fi + 1] = MapGet(state.changes[ci + 1], r, 0)
        /\ Sum(Take(values, fi)) = finalState(state, key)

\* values[finalIdx] or state.changes[changesIdx] out of range
IndexPanics(state) ==
    \E t \in NoMoreTriples(state) : \E o \in Longer(state, t[3]) :
        \/ finalIdx(state, t[3]) + 1 \notin DOMAIN state.final[o]
        \/ changesIdx(state, t[3]) + 1 \notin DOMAIN state.changes

indexNoMore(state, cases) ==
    UNION { { <<finalState(state, t[3]), t[2], cases[t[3]], t[3]>> } \cup
            { <<finalState(state, t[3]), t[2], cases[o], o>> :
                o \in { x \in Longer(state, t[3]) : SameState(state, t[3], t[2], x) } } :
            t \in NoMoreTriples(state) }

indexFinal(state, cases, d) ==
    { <<finalState(state, k), 0, cases[k], k>> :
        k \in { x \in DOMAIN state.final : \A t \in d : t[4] # x } }

RECURSIVE ShortestFrom(_, _, _)
ShortestFrom(ss, i, shortest) ==
    IF i > Len(ss) THEN shortest
    ELSE ShortestFrom(ss, i + 1,
            IF shortest = <<>> \/ Len(ss[i]) < Len(shortest) THEN ss[i] ELSE shortest)

\* The last string of the list, whatever its length.
lastString(ss) == ss[Len(ss)]

shortestString(ss) == ShortestFrom(ss, 1, <<>>)

\* checkAmbiguity without its deletions.
DeleteNone(state, ks) == state

RECURSIVE DeleteAll(_, _)
DeleteAll(state, ks) ==
    IF ks = {} THEN state
    ELSE LET k == CHOOSE x \in ks : TRUE IN DeleteAll(deleteKey(state, k), ks \ {k})

\* d.foreach with the function of lines 287-302, over the buckets <<sum, r>>
\* in the order bs.  acc = [state, e].
RECURSIVE Disambiguate(_, _, _, _, _, _, _)
Disambiguate(d, bs, i, ko, backToOrig, mapped, acc) ==
    IF i > Len(bs) THEN acc
    ELSE
    LET inB == { t \in d : t[1] = bs[i][1] /\ t[2] = bs[i][2] }
        rets == { t[3] : t \in inB }
        keySet == { t[4] : t \in inB }
        keys == InOrder(ko, keySet)
        shortest == shortestString(keys)
    IN  Disambiguate(d, bs, i + 1, ko, backToOrig, mapped,
            IF Cardinality(rets) = 1
            THEN [acc EXCEPT !.state = DeleteAll(@, keySet \ {shortest})]
            ELSE IF Len(keys) > 1
            THEN [acc EXCEPT !.e = ErrAdd(@, backToOrig, mapped, keySet)]
            ELSE acc)

\* The buckets of d, ordered by the first of their keys in ko, then by
\* <<sum, r>>.
KeyPos(ko, k) == Min({ i \in DOMAIN ko : ko[i] = k })
BucketPos(d, ko, b) == Min({ KeyPos(ko, t[4]) : t \in { x \in d : x[1] = b[1] /\ x[2] = b[2] } })
BucketBefore(d, ko, a, b) ==
    LET pa == BucketPos(d, ko, a)
        pb == BucketPos(d, ko, b)
    IN  \/ pa < pb
        \/ pa = pb /\ a[1] < b[1]
        \/ pa = pb /\ a[1] = b[1] /\ a[2] <= b[2]

RECURSIVE OrderBuckets(_, _, _)
OrderBuckets(d, ko, B) ==
    IF B = {} THEN <<>>
    ELSE LET b == CHOOSE x \in B : \A y \in B : BucketBefore(d, ko, x, y)
         IN  <<b>> \o OrderBuckets(d, ko, B \ {b})

Buckets(d, ko) == OrderBuckets(d, ko, { <<t[1], t[2]>> : t \in d })

\* The loop of lines 280-309 over the chain, from machine n on.
\* acc = [chain, e, panic].
RECURSIVE SearchChain(_, _, _, _, _, _)
SearchChain(cases, ko, backToOrig, mapped, n, acc) ==
    IF n > Len(acc.chain) THEN acc
    ELSE
    LET state == acc.chain[n]
        nm == indexNoMore(state, cases)
        d == IF n = Len(acc.chain) THEN nm \cup indexFinal(state, cases, nm) ELSE nm
        r == Disambiguate(d, Buckets(d, ko), 1, ko, backToOrig, mapped,
                          [state |-> state, e |-> acc.e])
    IN  IF IndexPanics(state) THEN [acc EXCEPT !.panic = TRUE]
        ELSE SearchChain(cases, ko, backToOrig, mapped, n + 1,
                [chain |-> [acc.chain EXCEPT ![n] = r.state], e |-> r.e, panic |-> FALSE])

checkAmbiguity(chain, cases, oc, backToOrig, mapped, ko) ==
    SearchChain(cases, ko, backToOrig, mapped, 1,
        [chain |-> chain,
         e |-> IF mapped THEN MangledAmbiguity(oc, backToOrig, InOrder(ko, DOMAIN backToOrig), 1, <<>>)
               ELSE <<>>,
         panic |-> FALSE])

---------------------------------------------------------------------------
(* Generate, lines 644-841: what is written for one length *)

\* The arms "case <finalString(key)>: return <cases[key]>" for a key list.
Arms(state, cases, keys) ==
    [i \in DOMAIN keys |-> <<finalState(state, keys[i]), cases[keys[i]]>>]

\* One machine of the chain as it is written: the collapse switch that
\* precedes it, and per offset the runes, their noMore arms and weights.
EmitMachine(state, cases) ==
    [offset |-> state.offset,
     collapse |-> [i \in DOMAIN state.collapsed |->
                      <<Sum(state.collapsed[i][1]), state.collapsed[i][2]>>],
     possible |-> state.possible,
     changes |-> state.changes,
     noMore |-> [i \in DOMAIN state.noMore |->
                   [r \in DOMAIN state.noMore[i] |-> Arms(state, cases, state.noMore[i][r])]]]

\* The final switch is written from the last machine of the chain.
EmitBucket(l, chain, cases, ko) ==
    LET last == chain[Len(chain)]
    IN  [l |-> l,
         machines |-> [i \in DOMAIN chain |-> EmitMachine(chain[i], cases)],
         single |-> Cardinality(DOMAIN last.final) = 1 /\ last.next = 1,
         final |-> Arms(last, cases, KeysOf(last, ko))]

---------------------------------------------------------------------------
(* Generate *)

\* lengths: the key lengths in descending order.
SortDesc(S) == LET a == SortSet(S) IN [i \in DOMAIN a |-> a[Len(a) + 1 - i]]

\* keys[l] after lines 609-629.
BucketKeys(cases, partialMatch, l) ==
    { k \in DOMAIN cases : IF partialMatch THEN Len(k) <= l ELSE Len(k) = l }

Success(p) == [err |-> "nil", badFlags |-> NoBadFlags, ambiguous |-> <<>>, prog |-> p]
Failure(kind, bad, e) == [err |-> kind, badFlags |-> bad, ambiguous |-> e, prog |-> <<>>]

\* The write error of a refused write.
WriteError == "write"

\* The writes (calls of fmt.Fprint*) of lines 712-730 for the rune r.
RuneWrites(mach, offset, r) ==
    LET noMore == MapGet(mach.noMore[offset + 1], r, <<>>)
    IN  2 + (IF Len(noMore) > 0 THEN 2 + 3 * Len(noMore) ELSE 0)
          + (IF MapGet(mach.changes[offset + 1], r, 0) # 0 THEN 2 ELSE 0)

\* The machine that writes the switch of realOffset: the last one of the chain
\* that starts at or before it.
MachineAt(chain, realOffset) ==
    CHOOSE m \in DOMAIN chain :
        /\ chain[m].offset <= realOffset
        /\ \A n \in DOMAIN chain : chain[n].offset <= realOffset => n <= m

\* The writes of lines 677-756 for realOffset; writeIgnore makes six.
PositionWrites(fs, equiv, l, chain, realOffset) ==
    LET m == MachineAt(chain, realOffset)
        mach == chain[m]
        offset == realOffset - mach.offset
        poss == mach.possible[offset + 1]
        ignoring == Len(fs.ignore) > 0 \/ Len(fs.ignoreExcept) > 0
        notInInput == expand(equiv, fs.ignoreExcept, <<poss, fs.stop>>)
    IN  (IF m > 1 /\ mach.offset = realOffset THEN 2 + 4 * Len(mach.collapsed) ELSE 0)
        + (IF ignoring THEN 1 ELSE 0)
        + 1
        + (IF Len(fs.ignore) > 0 THEN 2 + 6 ELSE 0)
        + Sum([i \in DOMAIN poss |-> RuneWrites(mach, offset, poss[i])])
        + (IF Len(fs.ignoreExcept) > 0
           THEN (IF Len(notInInput) > 0 THEN 3 ELSE 0) + 1 + 6
           ELSE IF ~fs.partialMatch \/ realOffset # l - 1 THEN 2 ELSE 0)
        + 1

\* The writes of lines 778-831: the trailing consumer and the final switch.
FinalWrites(fs, last) ==
    LET ignoring == Len(fs.ignore) > 0 \/ Len(fs.ignoreExcept) > 0
        stopping == Len(fs.stop) > 0
        n == Cardinality(DOMAIN last.final)
    IN  (IF ignoring THEN 3 ELSE IF stopping THEN 2 ELSE 0)
        + (IF ignoring \/ stopping
           THEN 1 + (IF stopping THEN 2 ELSE 0)
                  + (IF ignoring THEN (IF Len(fs.ignore) > 0 THEN 2 ELSE 4) + 2 ELSE 0)
                  + (IF Len(fs.ignoreExcept) = 0 THEN 2 ELSE 0)
                  + 2
           ELSE 0)
        + (IF n = 1 /\ last.next = 1 THEN 1 ELSE 2 + 3 * n)
        + (IF ignoring \/ stopping THEN 1 ELSE 0)

\* The writes of one length block after its first, lines 670-832.
BlockWrites(fs, equiv, l, chain, isLast) ==
    LET last == chain[Len(chain)]
    IN  2 + (IF Len(fs.ignore) > 0 \/ Len(fs.ignoreExcept) > 0 THEN 1 ELSE 0)
        + Sum([i \in 1..l |-> PositionWrites(fs, equiv, l, chain, i - 1)])
        + (IF last.next = 1 THEN 1 ELSE 0)
        + (IF fs.partialMatch THEN (IF isLast THEN 0 ELSE 1) + 1 ELSE FinalWrites(fs, last))

\* The loop of line 645 from the i-th length on; emitted holds the blocks
\* written so far and n counts the writes wr has received.  Of the writes of
\* a block the first is checked (lines 657-669; "switch len(input) {" goes
\* before it once, unchecked); after the loop come the end of that switch,
\* "return none" and the closing brace, which is checked (lines 834-840).
RECURSIVE GenerateLengths(_, _, _, _, _, _, _, _, _, _)
GenerateLengths(wr, n, oc, w, fs, ceiling, equiv, ko, lengths, emitted) ==
    LET bySwitch == ~(fs.partialMatch \/ Len(fs.stop) > 0 \/ Len(fs.ignore) > 0
                      \/ Len(fs.ignoreExcept) > 0)
        l == lengths[Len(emitted) + 1]
        state == newStateMachine(BucketKeys(w.cases, fs.partialMatch, l))
        ix == indexKeys(state, ceiling, equiv, fs.partialMatch, ko)
        amb == checkAmbiguity(ix.chain, w.cases, oc, w.backToOrig, w.mapped, ko)
        first == n + (IF bySwitch /\ emitted = <<>> THEN 2 ELSE 1)
        closing == n + (IF bySwitch /\ emitted # <<>> THEN 3 ELSE 2)
    IN  IF Len(emitted) = Len(lengths)
        THEN IF Refuses(wr, closing) THEN Failure(WriteError, NoBadFlags, <<>>)
             ELSE Success([partialMatch |-> fs.partialMatch, backwards |-> fs.backwards,
                           stop |-> fs.stop, ignore |-> fs.ignore,
                           ignoreExcept |-> fs.ignoreExcept,
                           equiv |-> equiv, buckets |-> emitted, writes |-> closing])
        ELSE IF ix.panic \/ amb.panic THEN Failure("panic", NoBadFlags, <<>>)
        ELSE IF Len(amb.e) > 0 THEN Failure("Ambiguous", NoBadFlags, amb.e)
        ELSE IF Refuses(wr, first) THEN Failure(WriteError, NoBadFlags, <<>>)
        ELSE GenerateLengths(wr,
                first + BlockWrites(fs, equiv, l, amb.chain, Len(emitted) + 1 = Len(lengths)),
                oc, w, fs, ceiling, equiv, ko, lengths,
                Append(emitted, EmitBucket(l, amb.chain, w.cases, ko)))

\* ord enumerates origCases in the order the maps are iterated.
Generate(wr, oc, fl, ord, ceiling) ==
    LET equiv == makeEquivalents(fl)
        fs0 == ParseFlags(fl)
        stopIgnore == StopIgnore(equiv, fs0.stop, fs0.ignore)
        fs == [fs0 EXCEPT !.stop = expand(equiv, @, <<>>),
                          !.ignore = expand(equiv, @, <<>>),
                          !.ignoreExcept = expand(equiv, @, <<>>)]
        w == makeCases(oc, ord, fs)
        ko == w.order
        lengths == SortDesc({ Len(k) : k \in DOMAIN w.cases })
    IN  IF fs0.bad # {}
        THEN Failure("BadFlags", [cannotCombine |-> fs0.bad, cannotStopIgnore |-> <<>>], <<>>)
        ELSE IF Len(stopIgnore) > 0
        THEN Failure("BadFlags", [cannotCombine |-> {}, cannotStopIgnore |-> stopIgnore], <<>>)
        ELSE GenerateLengths(wr, 0, oc, w, fs, ceiling, equiv, ko, lengths, <<>>)

---------------------------------------------------------------------------
(* The emitted matcher *)

Mangling(p) == Len(p.stop) > 0 \/ Len(p.ignore) > 0 \/ Len(p.ignoreExcept) > 0
Ignoring(p) == Len(p.ignore) > 0 \/ Len(p.ignoreExcept) > 0

\* inputAtOffset, lines 631-642: the index read, counted from 0.
inputAtOffset(p, in, off, ignored) ==
    IF p.backwards THEN Len(in) - (off + 1) - (IF Ignoring(p) THEN ignored ELSE 0)
    ELSE off + (IF Ignoring(p) THEN ignored ELSE 0)

InRange(in, idx) == 0 <= idx /\ idx < Len(in)

\* "switch state" over arms <<value, result>>: the first arm that matches,
\* or none of them.
RECURSIVE SwitchState(_, _, _, _)
SwitchState(arms, i, state, default) ==
    IF i > Len(arms) THEN default
    ELSE IF arms[i][1] = state THEN arms[i][2]
    ELSE SwitchState(arms, i + 1, state, default)

\* CaseOf when each case lists its rune alone, without the equivalents.
CaseOfAlone(p, possible, c) ==
    LET hit == { i \in DOMAIN possible : possible[i] = c }
    IN  IF hit = {} THEN 0 ELSE possible[Min(hit)]

\* The rune of possible whose case lists c, or 0.
CaseOf(p, possible, c) ==
    LET hit == { i \in DOMAIN possible : Contains(lookup(p.equiv, possible[i]), c) }
    IN  IF hit = {} THEN 0 ELSE possible[Min(hit)]

\* Lines 773-828: the trailing consumer and the final state switch.
RECURSIVE FinalLabel(_, _, _, _, _)
FinalLabel(p, b, in, state, ignored) ==
    LET more == IF Ignoring(p) THEN Len(in) > b.l + ignored ELSE Len(in) > b.l
        idx == inputAtOffset(p, in, b.l, ignored)
        c == in[idx + 1]
        result == IF b.single THEN b.final[1][2]
                  ELSE SwitchState(b.final, 1, state, FALL)
    IN  IF ~Mangling(p) \/ ~more THEN result
        ELSE IF ~InRange(in, idx) THEN PANIC
        ELSE IF Contains(p.stop, c) THEN result
        ELSE IF Len(p.ignore) > 0
             THEN IF Contains(p.ignore, c) THEN FinalLabel(p, b, in, state, ignored + 1)
                  ELSE NoneExpr
        ELSE IF Len(p.ignoreExcept) > 0
             THEN IF Contains(expand(p.equiv, p.ignoreExcept, <<p.stop>>), c) THEN NoneExpr
                  ELSE FinalLabel(p, b, in, state, ignored + 1)
        ELSE NoneExpr

\* Lines 676-757: the switches from realOffset on, entered with the machine
\* mi; afterCollapse is TRUE when control arrives by "goto label".
RECURSIVE Position(_, _, _, _, _, _, _, _, _)
Position(p, b, last, in, mi, realOffset, state, ignored, afterCollapse) ==
    LET hand == /\ ~afterCollapse
                /\ mi < Len(b.machines)
                /\ b.machines[mi + 1].offset = realOffset
        m == IF hand THEN mi + 1 ELSE mi
        mach == b.machines[m]
        st == IF hand THEN SwitchState(mach.collapse, 1, state, state) ELSE state
        offset == realOffset - mach.offset
        idx == inputAtOffset(p, in, realOffset, ignored)
        c == in[idx + 1]
        r == CaseOf(p, mach.possible[offset + 1], c)
        arms == MapGet(mach.noMore[offset + 1], r, <<>>)
        hit == SwitchState(arms, 1, st, FALL)
        writeIgnore == IF Len(in) <= ignored + b.l THEN NoneExpr
                       ELSE Position(p, b, last, in, m, realOffset, st, ignored + 1, TRUE)
        next == Position(p, b, last, in, m, realOffset + 1, st, ignored, FALSE)
    IN  IF realOffset >= b.l
        THEN IF p.partialMatch THEN (IF last THEN FALL ELSE NoneExpr)
             ELSE FinalLabel(p, b, in, state, ignored)
        ELSE IF ~InRange(in, idx) THEN PANIC
        ELSE IF Len(p.ignore) > 0 /\ Contains(p.ignore, c) THEN writeIgnore
        ELSE IF r # 0
        THEN IF hit # FALL THEN hit
             ELSE Position(p, b, last, in, m, realOffset + 1,
                           Add64(st, MapGet(mach.changes[offset + 1], r, 0)), ignored, FALSE)
        ELSE IF Len(p.ignoreExcept) > 0
        THEN IF Contains(expand(p.equiv, p.ignoreExcept, <<mach.possible[offset + 1], p.stop>>), c)
             THEN NoneExpr
             ELSE writeIgnore
        ELSE IF ~p.partialMatch \/ realOffset # b.l - 1 THEN NoneExpr
        ELSE next

RunBucket(p, i, in) ==
    Position(p, p.buckets[i], i = Len(p.buckets), in, 1, 0, 0, 0, FALSE)

\* Lines 657-669 and 834-837: the length blocks in turn, then "return none".
RECURSIVE RunFrom(_, _, _)
RunFrom(p, i, in) ==
    IF i > Len(p.buckets) THEN NoneExpr
    ELSE LET b == p.buckets[i]
             entered == IF p.partialMatch \/ Mangling(p) THEN Len(in) >= b.l
                        ELSE Len(in) = b.l
             res == RunBucket(p, i, in)
         IN  IF ~entered THEN RunFrom(p, i + 1, in)
             ELSE IF res # FALL THEN res
             ELSE IF p.partialMatch \/ Mangling(p) THEN RunFrom(p, i + 1, in)
             ELSE NoneExpr

matcher(p, in) == RunFrom(p, 1, in)

---------------------------------------------------------------------------
(* The state machine of the model *)

\* 'A', 'a', 'b' and '.': the runes of the inputs.
Alphabet == {65, 97, 98, 46}

Keys(A) == SeqsUpTo(A, MaxKeyLen)
Inputs == SeqsUpTo(Alphabet, MaxInputLen)

\* The case maps of at most MaxKeys keys drawn from K.
CaseMaps(K) ==
    UNION { [ks -> Values] : ks \in { S \in SUBSET K : Cardinality(S) \in 1..MaxKeys } }

InitWith(cs, fls, ceilings) ==
    /\ pc = "start"
    /\ origCases \in cs
    /\ flags \in fls
    /\ maxState \in ceilings
    /\ err = "" /\ badFlags = NoBadFlags /\ ambiguous = <<>> /\ prog = <<>>
    /\ input = <<>> /\ out = ""
    /\ writer = GoodWriter

\* Generate(w, origCases, none, flags...)
DoGenerate ==
    /\ pc = "start"
    /\ \E ord \in Perms(DOMAIN origCases) :
        LET g == Generate(writer, origCases, flags, ord, maxState)
        IN  /\ err' = g.err
            /\ badFlags' = g.badFlags
            /\ ambiguous' = g.ambiguous
            /\ prog' = g.prog
    /\ pc' = "generated"
    /\ UNCHANGED <<origCases, flags, maxState, input, out, writer>>

\* A call of the function Generate wrote.
Match ==
    /\ pc = "generated"
    /\ err = "nil"
    /\ \E in \in Inputs :
        /\ input' = in
        /\ out' = matcher(prog, in)
    /\ pc' = "matched"
    /\ UNCHANGED <<origCases, flags, maxState, err, badFlags, ambiguous, prog, writer>>

Next == DoGenerate \/ Match

---------------------------------------------------------------------------
(* What the documentation promises, stated without the generator *)

\* Two runes the flags declare equivalent in one step.
Related(fl, a, b) ==
    \/ a = b
    \/ \E i \in DOMAIN fl :
          \/ /\ fl[i].kind = "Insensitive"
             /\ \/ a \in 97..122 /\ b = a - 32
                \/ b \in 97..122 /\ a = b - 32
          \/ /\ fl[i].kind = "Equivalent"
             /\ Contains(fl[i].runes, a)
             /\ Contains(fl[i].runes, b)

FlagRunes(fl) == UNION { Range(fl[i].runes) : i \in DOMAIN fl }

\* The runes equivalent to a rune of S, through any number of steps.
RECURSIVE Class(_, _, _)
Class(fl, S, U) ==
    LET T == S \cup { b \in U : \E a \in S : Related(fl, a, b) }
    IN  IF T = S THEN S ELSE Class(fl, T, U)

Equiv(fl, a, b) == b \in Class(fl, {a}, Alphabet \cup FlagRunes(fl) \cup {a, b})

\* s is key k rune for rune, up to equivalence.
Same(fl, k, s) ==
    /\ Len(k) = Len(s)
    /\ \A i \in DOMAIN k : Equiv(fl, k[i], s[i])

---------------------------------------------------------------------------
(* Exact matching *)

\* No flags, Insensitive, Equivalent; the default ceiling.
ExactFlags == { <<>>, <<Insensitive>>, <<Equivalent(<<97, 98>>)>> }

Init == InitWith(CaseMaps(Keys({65, 97})), ExactFlags, {MaxUint64})

Spec == Init /\ [][Next]_vars

\* C1: without HasPrefix, HasSuffix, StopUpon, Ignore and IgnoreExcept and
\* with the default ceiling, the matcher Generate emitted returns cases[k]
\* for an input that is key k rune for rune up to equivalence, and none for
\* every other input.
C1_ExactMatch ==
    pc = "matched" =>
        /\ \A k \in DOMAIN origCases : Same(flags, k, input) => out = origCases[k]
        /\ (\A k \in DOMAIN origCases : ~Same(flags, k, input)) => out = NoneExpr

\* Two keys of one length and an input that is one of them in another case.
C1_Witness ==
    /\ pc = "matched"
    /\ flags = <<Insensitive>>
    /\ Cardinality(DOMAIN origCases) = 2
    /\ \A k \in DOMAIN origCases : Len(k) = 2
    /\ input \notin DOMAIN origCases
    /\ \E k \in DOMAIN origCases : Same(flags, k, input) /\ out = origCases[k]

---------------------------------------------------------------------------
(* Prefix and suffix matching *)

PartialFlags ==
    { <<HasPrefix>>, <<HasSuffix>>, <<HasPrefix, Insensitive>>, <<HasSuffix, Insensitive>> }

InitPartial == InitWith(CaseMaps(Keys({65, 97})), PartialFlags, {MaxUint64})

SpecPartial == InitPartial /\ [][Next]_vars

HasFlag(fl, kind) == \E i \in DOMAIN fl : fl[i].kind = kind

\* s begins (HasPrefix) or ends (HasSuffix) with key k, up to equivalence.
Begins(fl, k, s) == Len(k) <= Len(s) /\ Same(fl, k, Take(s, Len(k)))
Ends(fl, k, s) ==
    Len(k) <= Len(s) /\ Same(fl, k, SubSeq(s, Len(s) - Len(k) + 1, Len(s)))
Partial(fl, k, s) == IF HasFlag(fl, "HasSuffix") THEN Ends(fl, k, s) ELSE Begins(fl, k, s)

\* C2: with HasPrefix (HasSuffix) and no StopUpon, Ignore or IgnoreExcept, the
\* emitted matcher returns cases[k] for every input that begins (ends) with
\* key k up to equivalence, and none for an input no key begins (ends).
C2_PartialMatch ==
    pc = "matched" =>
        /\ \A k \in DOMAIN origCases : Partial(flags, k, input) => out = origCases[k]
        /\ (\A k \in DOMAIN origCases : ~Partial(flags, k, input)) => out = NoneExpr

\* C2 for the case sets without the empty key.
C2_NonEmptyKeys ==
    pc = "matched" /\ <<>> \notin DOMAIN origCases => C2_PartialMatch

---------------------------------------------------------------------------
(* StopUpon, Ignore, IgnoreExcept *)

\* r is a stop rune: equivalent to a rune of a StopUpon flag.
IsStop(fl, r) ==
    \E i \in DOMAIN fl :
        fl[i].kind = "StopUpon" /\ \E j \in DOMAIN fl[i].runes : Equiv(fl, fl[i].runes[j], r)

Listed(fl, kind, r) ==
    \E i \in DOMAIN fl :
        fl[i].kind = kind /\ \E j \in DOMAIN fl[i].runes : Equiv(fl, fl[i].runes[j], r)

\* r is skipped: listed by Ignore, or not listed when IgnoreExcept is given.
IsIgnored(fl, r) ==
    IF HasFlag(fl, "IgnoreExcept") THEN ~Listed(fl, "IgnoreExcept", r)
    ELSE Listed(fl, "Ignore", r)

\* The logical string: the significant runes before the first stop rune.
RECURSIVE Logical(_, _)
Logical(fl, s) ==
    IF s = <<>> THEN <<>>
    ELSE IF IsStop(fl, Head(s)) THEN <<>>
    ELSE IF IsIgnored(fl, Head(s)) THEN Logical(fl, Tail(s))
    ELSE <<Head(s)>> \o Logical(fl, Tail(s))

\* '.' is the stop rune or the ignored rune; keys are written with it too.
InitStop == InitWith(CaseMaps(Keys({97, 98, 46})), { <<StopUpon(<<46>>)>> }, {MaxUint64})

SpecStop == InitStop /\ [][Next]_vars

\* C3: with StopUpon(R) and neither HasPrefix nor HasSuffix, the emitted
\* matcher returns cases[k] for the input k and for every input made of k, a
\* rune of R and anything after it, whatever the lengths of the keys.
C3_StopUpon ==
    pc = "matched" =>
        \A k \in DOMAIN origCases :
            /\ Len(input) >= Len(k)
            /\ Take(input, Len(k)) = k
            /\ (Len(input) = Len(k) \/ IsStop(flags, input[Len(k) + 1]))
            => out = origCases[k]

\* C3 for the case sets whose mangled keys have one length.
C3_OneLength ==
    pc = "matched" /\ Cardinality({ Len(Logical(flags, k)) : k \in DOMAIN origCases }) = 1
        => C3_StopUpon

InitIgnore == InitWith(CaseMaps(Keys({97, 98, 46})), { <<Ignore(<<46>>)>> }, {MaxUint64})

SpecIgnore == InitIgnore /\ [][Next]_vars

\* C4: with Ignore(R) and neither HasPrefix nor HasSuffix, the emitted
\* matcher returns cases[k] for every input that is key k up to R-runes
\* deleted and inserted anywhere, whatever the lengths of the keys, and none
\* for an input that is no key up to R-runes.
C4_Ignore ==
    pc = "matched" =>
        /\ \A k \in DOMAIN origCases :
                Logical(flags, input) = Logical(flags, k) => out = origCases[k]
        /\ (\A k \in DOMAIN origCases : Logical(flags, input) # Logical(flags, k))
                => out = NoneExpr

\* C4 for the case sets whose mangled keys have one length.
C4_OneLength ==
    pc = "matched" /\ Cardinality({ Len(Logical(flags, k)) : k \in DOMAIN origCases }) = 1
        => C4_Ignore

\* The stop rune '.' is listed by IgnoreExcept in the second flag list only.
ExceptStopFlags ==
    { <<IgnoreExcept(<<97, 98>>), StopUpon(<<46>>)>>,
      <<IgnoreExcept(<<97, 46>>), StopUpon(<<46>>)>> }

InitExceptStop == InitWith(CaseMaps(Keys({97, 98, 46})), ExceptStopFlags, {MaxUint64})

SpecExceptStop == InitExceptStop /\ [][Next]_vars

\* C5: with IgnoreExcept and StopUpon, the matcher decides on the significant
\* runes before the first stop rune: an input whose significant runes before
\* its first stop rune spell no mangled key returns none.
C5_StopEndsInput ==
    pc = "matched" =>
        ((\A k \in DOMAIN origCases : Logical(flags, input) # Logical(flags, k))
            => out = NoneExpr)

---------------------------------------------------------------------------
(* Chained state machines *)

\* Ceilings low enough to split the machine of keys one rune longer than
\* MaxKeyLen.
Ceilings == 8..17

LongKeys == [1..(MaxKeyLen + 1) -> {97, 98}]

InitChain == InitWith(CaseMaps(LongKeys), { <<>> }, Ceilings)

SpecChain == InitChain /\ [][Next]_vars

\* C6: when Generate succeeds under a lowered ceiling, the matcher emitted
\* from the chain returns on every input what the matcher emitted with the
\* default ceiling returns.
C6_ChainEquivalent ==
    pc = "matched" =>
        \A ord \in Perms(DOMAIN origCases) :
            LET g == Generate(GoodWriter, origCases, flags, ord, MaxUint64)
            IN  g.err = "nil" => out = matcher(g.prog, input)

---------------------------------------------------------------------------
(* Ambiguity *)

MangleFlags ==
    { pre \o fl : pre \in { <<>>, <<HasPrefix>>, <<HasSuffix>> },
                  fl \in { <<StopUpon(<<46>>)>>, <<Ignore(<<46>>)>>,
                           <<IgnoreExcept(<<97, 98>>)>> } }

AmbigFlags == MangleFlags \cup { <<>>, <<Insensitive>>, <<HasPrefix>>, <<HasSuffix>> }

InitAmbig == InitWith(CaseMaps(Keys({97, 98, 46})), AmbigFlags, {MaxUint64})

SpecAmbig == InitAmbig /\ [][Next]_vars

\* The mangled key of k: its logical string, read from the end with HasSuffix.
Image(fl, k) == Logical(fl, IF HasFlag(fl, "HasSuffix") THEN reverseString(k) ELSE k)

IsMangling(fl) ==
    HasFlag(fl, "StopUpon") \/ HasFlag(fl, "Ignore") \/ HasFlag(fl, "IgnoreExcept")

\* Some group of the error holds both keys.
Grouped(k1, k2) == \E i \in DOMAIN ambiguous : {k1, k2} \subseteq ambiguous[i]

\* C7: with StopUpon, Ignore or IgnoreExcept, with or without HasPrefix or
\* HasSuffix, two keys that mangle to one key and have different return
\* expressions make Generate return an Ambiguous error with both keys in one
\* group.
C7_CollisionReported ==
    pc = "generated" /\ IsMangling(flags) =>
        \A k1, k2 \in DOMAIN origCases :
            /\ k1 # k2
            /\ Image(flags, k1) = Image(flags, k2)
            /\ origCases[k1] # origCases[k2]
            => err = "Ambiguous" /\ Grouped(k1, k2)

\* C7 without HasSuffix.
C7_Forward ==
    pc = "generated" /\ ~HasFlag(flags, "HasSuffix") => C7_CollisionReported

\* C8: every key an Ambiguous error names is a key of the caller's case map
\* as the caller wrote it.
C8_OriginalKeys ==
    pc = "generated" /\ err = "Ambiguous" =>
        \A i \in DOMAIN ambiguous : ambiguous[i] \subseteq DOMAIN origCases

\* C8 without HasSuffix and mangling together.
C8_Forward ==
    pc = "generated" /\ ~(HasFlag(flags, "HasSuffix") /\ IsMangling(flags))
        => C8_OriginalKeys

\* C9: when all keys map to one return expression, Generate does not return
\* an Ambiguous error.
C9_SameExpression ==
    pc = "generated" /\ Cardinality(Range(origCases)) = 1 => err # "Ambiguous"

\* C9 without HasSuffix and mangling together.
C9_Forward ==
    pc = "generated" /\ ~(HasFlag(flags, "HasSuffix") /\ IsMangling(flags))
        => C9_SameExpression

\* Case maps of up to MaxKeys + 2 keys, so that two lengths can each hold two
\* keys that differ in case only.
LengthMaps ==
    UNION { [ks -> Values] :
            ks \in { S \in SUBSET (Keys({65, 97}) \ {<<>>}) :
                        Cardinality(S) \in 1..(MaxKeys + 2) } }

InitLengths == InitWith(LengthMaps, { <<Insensitive>> }, {MaxUint64})

SpecLengths == InitLengths /\ [][Next]_vars

\* Two keys with different return expressions that one input matches.
Conflict(k1, k2) ==
    /\ k1 # k2
    /\ origCases[k1] # origCases[k2]
    /\ Same(flags, k1, k2)

ConflictLengths ==
    { Len(k1) : k1 \in { k \in DOMAIN origCases :
                            \E k2 \in DOMAIN origCases : Conflict(k, k2) } }

Max(S) == CHOOSE x \in S : \A y \in S : y <= x

\* C10: an Ambiguous error names every pair of keys with different return
\* expressions that one input matches, whatever the length of the keys.
C10_AllLengths ==
    pc = "generated" /\ err = "Ambiguous" =>
        \A k1, k2 \in DOMAIN origCases : Conflict(k1, k2) => Grouped(k1, k2)

\* C10 for one length: an Ambiguous error names every conflict among the keys
\* of the greatest length at which two keys conflict, and no other key.
C10_LongestLength ==
    pc = "generated" /\ err = "Ambiguous" =>
        /\ ConflictLengths # {}
        /\ \A k1, k2 \in DOMAIN origCases :
                Conflict(k1, k2) /\ Len(k1) = Max(ConflictLengths) => Grouped(k1, k2)
        /\ \A i \in DOMAIN ambiguous : \A k \in ambiguous[i] :
                Len(k) = Max(ConflictLengths)

---------------------------------------------------------------------------
(* ErrAmbiguous.add called in sequence *)

\* The calls of add one error value receives.
MaxAdds == 3

\* "a", "b", "c", "d": the keys handed to add.
AddKeys == { <<97>>, <<98>>, <<99>>, <<100>> }

\* No Generate has run: the error value is built by hand, as TestErrAmbiguous
\* does.  input holds the keys of the last call, out the number of calls.
InitAdd ==
    /\ pc = "ErrAmbiguous"
    /\ origCases = <<>> /\ flags = <<>> /\ maxState = MaxUint64
    /\ err = "" /\ badFlags = NoBadFlags /\ prog = <<>>
    /\ ambiguous = <<>>
    /\ input = {} /\ out = 0
    /\ writer = GoodWriter

\* e.add(nil, keys...)
Add ==
    /\ pc = "ErrAmbiguous"
    /\ out < MaxAdds
    /\ \E keys \in (SUBSET AddKeys) \ {{}} :
        /\ ambiguous' = ErrAdd(ambiguous, <<>>, FALSE, keys)
        /\ input' = keys
    /\ out' = out + 1
    /\ UNCHANGED <<pc, origCases, flags, maxState, err, badFlags, prog, writer>>

NextAdd == Add

SpecAdd == InitAdd /\ [][NextAdd]_vars

\* C11: after any sequence of add calls the groups are pairwise disjoint and
\* the keys of one call lie in one group.
C11_GroupsDisjoint ==
    pc = "ErrAmbiguous" =>
        /\ \A i, j \in DOMAIN ambiguous : i # j => ambiguous[i] \cap ambiguous[j] = {}
        /\ out > 0 => \E i \in DOMAIN ambiguous : input \subseteq ambiguous[i]

\* C11, the part the code keeps: the keys of one call lie in one group, and
\* no group is empty.
C11_CallInOneGroup ==
    pc = "ErrAmbiguous" =>
        /\ out > 0 => \E i \in DOMAIN ambiguous : input \subseteq ambiguous[i]
        /\ \A i \in DOMAIN ambiguous : ambiguous[i] # {}

---------------------------------------------------------------------------
(* GenerateReverse *)

\* The first occurrences of s, in order.
RECURSIVE NoDups(_)
NoDups(s) ==
    IF s = <<>> THEN <<>>
    ELSE <<Head(s)>> \o NoDups(SelectSeq(Tail(s), LAMBDA x : x # Head(s)))

\* d[ret] with one key only.
SharedKeysFirst(cases, ret) ==
    { CHOOSE k \in DOMAIN cases : cases[k] = ret }

\* checkReverseAmbiguity, lines 323-326: d[ret], the keys that return ret.
SharedKeys(cases, ret) ==
    { k \in DOMAIN cases : cases[k] = ret }

\* Lines 328-333: the loop over d, in the order rets.
RECURSIVE ReverseGroups(_, _, _, _)
ReverseGroups(cases, rets, i, e) ==
    IF i > Len(rets) THEN e
    ELSE LET keys == SharedKeys(cases, rets[i])
         IN  ReverseGroups(cases, rets, i + 1,
                IF Cardinality(keys) > 1 THEN ErrAdd(e, <<>>, FALSE, keys) ELSE e)

checkReverseAmbiguity(cases, ord) ==
    ReverseGroups(cases, NoDups([i \in DOMAIN ord |-> cases[ord[i]]]), 1, <<>>)

\* sort.Strings: the byte-wise order of strings.
RECURSIVE LexLess(_, _)
LexLess(a, b) ==
    IF a = <<>> THEN b # <<>>
    ELSE IF b = <<>> THEN FALSE
    ELSE IF Head(a) # Head(b) THEN Head(a) < Head(b)
    ELSE LexLess(Tail(a), Tail(b))

RECURSIVE SortStrings(_)
SortStrings(S) ==
    IF S = {} THEN <<>>
    ELSE LET m == CHOOSE x \in S : \A y \in S \ {x} : LexLess(x, y)
         IN  <<m>> \o SortStrings(S \ {m})

\* GenerateReverse(w, cases, none, flags...): the flags are not looked at.
\* The first write and the last are checked; the 3 writes per key and the 3
\* of the default case and the end of the switch are not.
GenerateReverse(wr, cases, ord) ==
    LET e == checkReverseAmbiguity(cases, ord)
        keys == SortStrings(DOMAIN cases)
        last == 1 + 3 * Len(keys) + 3 + 1
    IN  IF Len(e) > 0 THEN Failure("Ambiguous", NoBadFlags, e)
        ELSE IF Refuses(wr, 1) \/ Refuses(wr, last) THEN Failure(WriteError, NoBadFlags, <<>>)
        ELSE Success([reverse |-> [i \in DOMAIN keys |-> <<cases[keys[i]], keys[i]>>],
                      writes |-> last])

DoGenerateReverse ==
    /\ pc = "start"
    /\ \E ord \in Perms(DOMAIN origCases) :
        LET g == GenerateReverse(writer, origCases, ord)
        IN  /\ err' = g.err
            /\ badFlags' = g.badFlags
            /\ ambiguous' = g.ambiguous
            /\ prog' = g.prog
    /\ pc' = "reversed"
    /\ UNCHANGED <<origCases, flags, maxState, input, out, writer>>

NextReverse == DoGenerateReverse

\* The keys of the case maps handed to GenerateReverse, and how many a map has.
ReverseKeys == { <<>>, <<97>>, <<98>>, <<97, 98>>, <<98, 97>> }
MaxReverseKeys == 4

ReverseMaps ==
    UNION { [ks -> Values] :
            ks \in { S \in SUBSET ReverseKeys : Cardinality(S) \in 1..MaxReverseKeys } }

ReverseFlags == { <<>>, <<Insensitive>>, <<HasPrefix, HasSuffix>>, <<Ignore(<<97>>)>> }

InitReverse == InitWith(ReverseMaps, ReverseFlags, {MaxUint64})

SpecReverse == InitReverse /\ [][NextReverse]_vars

\* The sets of two or more keys that share a return expression.
Duplicates ==
    { S \in SUBSET DOMAIN origCases :
        /\ Cardinality(S) > 1
        /\ \E v \in Range(origCases) : S = { k \in DOMAIN origCases : origCases[k] = v } }

\* C12: GenerateReverse returns an Ambiguous error exactly when two keys map
\* to one return expression, whatever the flags, and the groups of the error
\* are exactly the sets of two or more keys that share a return expression.
C12_ReverseAmbiguity ==
    pc = "reversed" =>
        /\ err = "Ambiguous" <=> Duplicates # {}
        /\ err = "Ambiguous" =>
            /\ Range(ambiguous) = Duplicates
            /\ Len(ambiguous) = Cardinality(Duplicates)
        /\ err # "Ambiguous" => err = "nil" /\ ambiguous = <<>>

\* Two groups of two keys each, as {foo:1, bar:1, baz:2, bat:2} gives.
C12_Witness ==
    /\ pc = "reversed"
    /\ err = "Ambiguous"
    /\ Len(ambiguous) = 2
    /\ \A i \in DOMAIN ambiguous : Cardinality(ambiguous[i]) = 2

---------------------------------------------------------------------------
(* Flags that cannot be combined *)

\* The length of the flag lists.
MaxFlags == 4

\* Ignore() with no rune is a flag too.
FlagChoice ==
    { HasPrefix, HasSuffix, Insensitive, Ignore(<<46>>), Ignore(<<>>), IgnoreExcept(<<97>>) }

FlagLists == UNION { [1..n -> FlagChoice] : n \in 0..MaxFlags }

\* TestBadFlags hands Generate the case map {"a": "1"}.
BadFlagsMaps == { [k \in {<<97>>} |-> "1"] }

InitFlags == InitWith(BadFlagsMaps, FlagLists, {MaxUint64})

SpecFlags == InitFlags /\ [][Next]_vars

\* The position at which a second flag of the pair kindA, kindB completes a
\* conflict: an earlier flag has the other kind.  Flags without runes do not
\* count among Ignore and IgnoreExcept.
Counts(f) == f.kind \in {"HasPrefix", "HasSuffix"} \/ Len(f.runes) > 0

Completes(fl, kindA, kindB) ==
    { i \in DOMAIN fl :
        /\ Counts(fl[i])
        /\ \E j \in 1..(i - 1) :
            /\ Counts(fl[j])
            /\ {fl[i].kind, fl[j].kind} = {kindA, kindB} }

FirstOf(S) == IF S = {} THEN MaxFlags + 2 ELSE Min(S)

\* C13: HasPrefix with HasSuffix, and a non-empty Ignore with a non-empty
\* IgnoreExcept, in either order and with other flags between them, make
\* Generate return a BadFlags error that names the pair; of two conflicting
\* pairs the one completed first is named; HasPrefix or HasSuffix repeated
\* alone is no error.
C13_CannotCombine ==
    pc = "generated" =>
        LET ps == FirstOf(Completes(flags, "HasPrefix", "HasSuffix"))
            ig == FirstOf(Completes(flags, "Ignore", "IgnoreExcept"))
        IN  /\ ps < ig =>
                /\ err = "BadFlags"
                /\ badFlags.cannotCombine = {"HasPrefix", "HasSuffix"}
            /\ ig < ps =>
                /\ err = "BadFlags"
                /\ badFlags.cannotCombine = {"Ignore", "IgnoreExcept"}
            /\ ps = ig => badFlags.cannotCombine = {}

\* Both pairs conflict; Ignore and IgnoreExcept are completed first.
C13_Witness ==
    /\ pc = "generated"
    /\ flags = <<HasSuffix, Ignore(<<46>>), IgnoreExcept(<<97>>), HasPrefix>>
    /\ err = "BadFlags"
    /\ badFlags.cannotCombine = {"Ignore", "IgnoreExcept"}

---------------------------------------------------------------------------
(* StopUpon runes equivalent to Ignore runes *)

\* The runes one StopUpon or Ignore flag is given.
MaxRunes == 2

RuneLists == UNION { [1..n -> {65, 97, 98}] : n \in 1..MaxRunes }

\* StopUpon and Ignore in either order, alone or followed by a flag that
\* makes runes equivalent.
StopIgnoreFlags ==
    { pair \o tail :
        pair \in UNION { { <<StopUpon(s), Ignore(i)>>, <<Ignore(i), StopUpon(s)>> } :
                            s \in RuneLists, i \in RuneLists },
        tail \in { <<>>, <<Insensitive>>, <<Equivalent(<<97, 98>>)>> } }

InitStopIgnore == InitWith(BadFlagsMaps, StopIgnoreFlags, {MaxUint64})

SpecStopIgnore == InitStopIgnore /\ [][Next]_vars

\* ErrBadFlags.Error sorts cannotStopIgnore before it lists it.
ReportedStopIgnore(e) == SortRunes(e.cannotStopIgnore)

\* The runes the caller gave to the flags of one kind.
GivenTo(fl, kind) == UNION { Range(fl[i].runes) : i \in { j \in DOMAIN fl : fl[j].kind = kind } }

Offending(fl) ==
    { r \in GivenTo(fl, "StopUpon") : \E r2 \in GivenTo(fl, "Ignore") : Equiv(fl, r, r2) }

\* C14: without mutually exclusive flags, Generate returns a BadFlags error
\* with cannotStopIgnore exactly when a StopUpon rune is equivalent to an
\* Ignore rune, and the list reported is the offending StopUpon runes, sorted,
\* each listed once.
C14_StopIgnoreList ==
    pc = "generated" =>
        /\ (err = "BadFlags" /\ Len(badFlags.cannotStopIgnore) > 0) <=> Offending(flags) # {}
        /\ ReportedStopIgnore(badFlags) = SortSet(Offending(flags))

\* C14 without "each listed once": the error is returned exactly when a
\* StopUpon rune is equivalent to an Ignore rune, and the runes reported are
\* the offending StopUpon runes.
C14_StopIgnoreRunes ==
    pc = "generated" =>
        /\ (err = "BadFlags" /\ Len(badFlags.cannotStopIgnore) > 0) <=> Offending(flags) # {}
        /\ err # "BadFlags" => err = "nil"
        /\ Range(badFlags.cannotStopIgnore) = Offending(flags)

---------------------------------------------------------------------------
(* GenerateTest, and writers that refuse writes *)

\* The loop of lines 903-932 from the i-th key on: n counts the writes made,
\* failed tells that a checked write was refused.  The write that opens an
\* if statement is checked, the four after it are not; s[0] of line 924
\* panics on an empty return expression.
RECURSIVE TestWrites(_, _, _, _, _, _, _)
TestWrites(wr, fn, reverseFn, cases, keys, i, n) ==
    LET afterFn == IF fn THEN n + 5 ELSE n
    IN  IF i > Len(keys) THEN [n |-> n, err |-> "nil"]
        ELSE IF fn /\ Refuses(wr, n + 1) THEN [n |-> n + 1, err |-> WriteError]
        ELSE IF reverseFn /\ Refuses(wr, afterFn + 1) THEN [n |-> afterFn + 1, err |-> WriteError]
        ELSE IF reverseFn /\ cases[keys[i]] = ZeroExpr THEN [n |-> afterFn + 2, err |-> "panic"]
        ELSE TestWrites(wr, fn, reverseFn, cases, keys, i + 1,
                        IF reverseFn THEN afterFn + 5 ELSE afterFn)

\* GenerateTest without the check of its last write.
GenerateTestUnchecked(wr, fn, reverseFn, cases) ==
    LET r == TestWrites(wr, fn, reverseFn, cases, SortStrings(DOMAIN cases), 1, 0)
    IN  IF r.err # "nil" THEN Failure(r.err, NoBadFlags, <<>>)
        ELSE Success([tests |-> SortStrings(DOMAIN cases), writes |-> r.n + 1])

\* GenerateTest(w, fn, reverseFn, cases, flags...): fn and reverseFn tell
\* whether the format string is non-empty.
GenerateTest(wr, fn, reverseFn, cases) ==
    LET r == TestWrites(wr, fn, reverseFn, cases, SortStrings(DOMAIN cases), 1, 0)
    IN  IF r.err # "nil" THEN Failure(r.err, NoBadFlags, <<>>)
        ELSE IF Refuses(wr, r.n + 1) THEN Failure(WriteError, NoBadFlags, <<>>)
        ELSE Success([tests |-> SortStrings(DOMAIN cases), writes |-> r.n + 1])

DoGenerateTest ==
    /\ pc = "start"
    /\ \E fn \in BOOLEAN, reverseFn \in BOOLEAN :
        LET g == GenerateTest(writer, fn, reverseFn, origCases)
        IN  /\ err' = g.err
            /\ badFlags' = g.badFlags
            /\ ambiguous' = g.ambiguous
            /\ prog' = g.prog
            /\ input' = <<fn, reverseFn>>
    /\ pc' = "tested"
    /\ UNCHANGED <<origCases, flags, maxState, out, writer>>

NextSink == DoGenerate \/ DoGenerateReverse \/ DoGenerateTest

\* The greatest number of a write that a writer refuses alone.
MaxFailAt == 16

Writers ==
    { GoodWriter, BadWriter } \cup { [fails |-> {k}, all |-> FALSE] : k \in 1..MaxFailAt }

\* The case maps written to the writers: the empty one, and those of the keys
\* "a" and "ab".
SinkMaps == { <<>> } \cup CaseMaps({ <<97>>, <<97, 98>> })

SinkFlags == { <<>>, <<HasPrefix>>, <<Ignore(<<46>>)>> }

InitSink ==
    /\ pc = "start"
    /\ origCases \in SinkMaps
    /\ flags \in SinkFlags
    /\ maxState = MaxUint64
    /\ err = "" /\ badFlags = NoBadFlags /\ ambiguous = <<>> /\ prog = <<>>
    /\ input = <<>> /\ out = ""
    /\ writer \in Writers

SpecSink == InitSink /\ [][NextSink]_vars

\* A write of the operation was refused: the operation returned an error
\* when it met the refusal, or made the write and went on.
WriteRefused ==
    \/ err = WriteError
    \/ err = "nil" /\ \E k \in 1..prog.writes : Refuses(writer, k)

\* C15: if a write fails during Generate, GenerateReverse or GenerateTest,
\* whichever write it is and whatever the later writes do, the operation
\* returns an error.
C15_WriteFailureSurfaces ==
    pc \in {"generated", "reversed", "tested"} /\ WriteRefused => err # "nil"

\* C15 for the checked writes: the operation returns an error exactly when
\* a write whose result it looks at is refused, and a writer that accepts
\* every write never makes it return one.
C15_CheckedWrites ==
    pc \in {"generated", "reversed", "tested"} =>
        /\ err = WriteError => writer # GoodWriter
        /\ writer = GoodWriter => err \in {"nil", "Ambiguous"}

\* C16: with a writer that refuses every write, Generate (with and without
\* HasPrefix), GenerateReverse and GenerateTest return an error and do not
\* panic, for every unambiguous case set, the empty one included.
C16_BadWriter ==
    pc \in {"generated", "reversed", "tested"} /\ writer = BadWriter =>
        /\ err \in {WriteError, "Ambiguous"}
        /\ err = "Ambiguous" => Len(ambiguous) > 0

\* GenerateTest of the empty case map, for neither function, on a writer that
\* refuses every write.
C16_Witness ==
    /\ pc = "tested"
    /\ writer = BadWriter
    /\ origCases = <<>>
    /\ input = <<FALSE, FALSE>>
    /\ err = WriteError

---------------------------------------------------------------------------
(* Weights that do not fit under the ceiling *)

\* Ceilings so low that the first position of a machine overflows.
LowCeilings == 1..3

InitOverflow == InitWith(CaseMaps(Keys({97, 98})), {<<>>}, LowCeilings)

SpecOverflow == InitOverflow /\ [][Next]_vars

\* The runes at the first position of the keys of length l.
FirstRunes(l) == { k[1] : k \in { x \in DOMAIN origCases : Len(x) = l } }

\* Without flags, the first machine of the bucket of length l starts with
\* next = base = 1 and gives the j-th rune of position 0 the weight j; the
\* j-th does not fit when maxState - j is 0.  The overflow is then at the
\* first position of the machine, and no split is possible.
CannotChain ==
    \E l \in 1..MaxKeyLen :
        /\ Cardinality(FirstRunes(l)) > 1
        /\ maxState \in 1..Cardinality(FirstRunes(l))

\* C17: when the weights of a bucket do not fit under the ceiling and the
\* overflow is at the first position of a machine, Generate returns the
\* Overflow error; it does not panic and emits no matcher.
C17_OverflowReturned ==
    pc = "generated" /\ CannotChain => err = "Overflow" /\ prog = <<>>

\* What Generate does then: makeNextStateMachine panics.
C17_Panics ==
    pc = "generated" /\ CannotChain => err = "panic" /\ prog = <<>>

---------------------------------------------------------------------------
(* Rune equivalence (runes.go) as operations *)

\* The flags of one makeEquivalents call.
MaxEquivFlags == 2

\* 'A', 'a', 'b': the runes named in Equivalent flags.
EquivRunes == { 65, 97, 98 }

EquivFlagChoice ==
    { Insensitive } \cup
    { Equivalent(s) : s \in [1..1 -> EquivRunes] \cup [1..2 -> EquivRunes] }

EquivFlagLists == UNION { [1..n -> EquivFlagChoice] : n \in 0..MaxEquivFlags }

\* The runes looked up: those of the flags, 'B' and '.'.
LookupRunes == EquivRunes \cup { 66, 46 }

\* The lists handed to expand: rs of up to two runes, and up to two
\* exclusion lists of one rune each.
ExpandLists == SeqsUpTo({ 65, 97, 98, 46 }, 2)
ExcludeLists == SeqsUpTo({ <<97>>, <<98>>, <<46>> }, 2)

InitEquiv == InitWith({ <<>> }, EquivFlagLists, {MaxUint64})

\* equiv := makeEquivalents(flags...)
DoMakeEquivalents ==
    /\ pc = "start"
    /\ prog' = makeEquivalents(flags)
    /\ pc' = "equivalents"
    /\ UNCHANGED <<origCases, flags, maxState, err, badFlags, ambiguous, input, out, writer>>

\* equiv.lookup(r)
DoLookup ==
    /\ pc = "equivalents"
    /\ \E r \in LookupRunes :
        /\ input' = r
        /\ out' = lookup(prog, r)
    /\ pc' = "looked"
    /\ UNCHANGED <<origCases, flags, maxState, err, badFlags, ambiguous, prog, writer>>

\* equiv.expand(rs, exclude...), and expand applied to its own result.
DoExpand ==
    /\ pc = "equivalents"
    /\ \E rs \in ExpandLists, exclude \in ExcludeLists :
        /\ input' = [rs |-> rs, exclude |-> exclude]
        /\ out' = [once |-> expand(prog, rs, exclude),
                   twice |-> expand(prog, expand(prog, rs, exclude), exclude)]
    /\ pc' = "expanded"
    /\ UNCHANGED <<origCases, flags, maxState, err, badFlags, ambiguous, prog, writer>>

NextEquiv == DoMakeEquivalents \/ DoLookup \/ DoExpand

SpecEquiv == InitEquiv /\ [][NextEquiv]_vars

\* The class of r in the smallest equivalence relation that contains the
\* declared sets (and the case pairs under Insensitive).
ClassOf(fl, r) == Class(fl, {r}, LookupRunes \cup FlagRunes(fl) \cup {r})

\* Is r in a declared Equivalent set or, under Insensitive, a letter?
Named(fl, r) ==
    \/ r \in FlagRunes(fl)
    \/ /\ \E i \in DOMAIN fl : fl[i].kind = "Insensitive"
       /\ r \in (65..90) \cup (97..122)

\* C18: isEquiv as makeEquivalents builds it is reflexive, symmetric and
\* transitive, and is the smallest equivalence relation that contains the
\* declared Equivalent sets and, under Insensitive, the case pairs; lookup(r)
\* is the class of r sorted and without duplicates, and <<r>> for a rune
\* that no flag names.
C18_Equivalence ==
    /\ pc = "equivalents" =>
        /\ \A a \in LookupRunes : isEquiv(prog, a, a)
        /\ \A a, b \in LookupRunes : isEquiv(prog, a, b) => isEquiv(prog, b, a)
        /\ \A a, b, c \in LookupRunes :
                isEquiv(prog, a, b) /\ isEquiv(prog, b, c) => isEquiv(prog, a, c)
        /\ \A a, b \in LookupRunes : isEquiv(prog, a, b) <=> b \in ClassOf(flags, a)
    /\ pc = "looked" =>
        /\ out = SortSet(ClassOf(flags, input))
        /\ ~Named(flags, input) => out = <<input>>

\* Two declared sets that share a rune: 'a' and 'A' are equivalent through 'b'.
C18_Witness ==
    /\ pc = "equivalents"
    /\ flags = <<Equivalent(<<97, 98>>), Equivalent(<<98, 65>>)>>
    /\ isEquiv(prog, 97, 65)
    /\ ~isEquiv(prog, 97, 66)


\* Is rune r equivalent to a rune of one of the exclusion lists?
EquivToExcluded(fl, r, exclude) ==
    \E i \in DOMAIN exclude : \E j \in DOMAIN exclude[i] : exclude[i][j] \in ClassOf(fl, r)

StrictlySorted(s) == \A i, j \in DOMAIN s : i < j => s[i] < s[j]

\* C19: expand(rs) is the sorted duplicate-free union of the classes of the
\* runes of rs; expanding the result again changes nothing; with exclusion
\* lists the result holds no rune equivalent to an excluded rune, and holds
\* the whole class of every rune of rs that is equivalent to no excluded rune.
C19_Expand ==
    pc = "expanded" =>
        /\ StrictlySorted(out.once)
        /\ input.exclude = <<>> =>
              Range(out.once) = UNION { ClassOf(flags, input.rs[i]) : i \in DOMAIN input.rs }
        /\ out.twice = out.once
        /\ \A i \in DOMAIN out.once : ~EquivToExcluded(flags, out.once[i], input.exclude)
        /\ \A i \in DOMAIN input.rs :
              ~EquivToExcluded(flags, input.rs[i], input.exclude)
                  => ClassOf(flags, input.rs[i]) \subseteq Range(out.once)

\* Under Insensitive 'A' is dropped for being equivalent to the excluded 'a',
\* and 'b' brings in its whole class.
C19_Witness ==
    /\ pc = "expanded"
    /\ flags = <<Insensitive>>
    /\ input = [rs |-> <<65, 98>>, exclude |-> << <<97>> >>]
    /\ out.once = <<66, 98>>

---------------------------------------------------------------------------
(* indexKeys as an operation *)

\* Keys of one to MaxKeyLen + 1 runes over 'a' and 'b'.
IndexKeySet == UNION { [1..n -> {97, 98}] : n \in 1..(MaxKeyLen + 1) }

IndexMaps ==
    { [k \in ks |-> "1"] : ks \in { S \in SUBSET IndexKeySet : Cardinality(S) \in 1..MaxKeys } }

\* Exact and partial matching.
IndexFlags == { <<>>, <<HasPrefix>> }

\* Ceilings that make chains of two machines, and the real one.
IndexCeilings == Ceilings \cup {MaxUint64}

InitIndex == InitWith(IndexMaps, IndexFlags, IndexCeilings)

\* state := newStateMachine(keys[l]); state.indexKeys(equiv, partialMatch),
\* for one of the lengths l; prog is the chain, first machine first.
DoIndexKeys ==
    /\ pc = "start"
    /\ \E ord \in Perms(DOMAIN origCases) :
       \E l \in { Len(k) : k \in DOMAIN origCases } :
        LET fs == ParseFlags(flags)
            state == newStateMachine(BucketKeys(origCases, fs.partialMatch, l))
            ix == indexKeys(state, maxState, makeEquivalents(flags), fs.partialMatch, ord)
        IN  /\ input' = l
            /\ err' = IF ix.panic THEN "panic" ELSE "nil"
            /\ prog' = IF ix.panic THEN <<>> ELSE ix.chain
    /\ pc' = "indexed"
    /\ UNCHANGED <<origCases, flags, maxState, badFlags, ambiguous, out, writer>>

NextIndex == DoIndexKeys

SpecIndex == InitIndex /\ [][NextIndex]_vars

\* 1 in a machine that received a collapsed value (offset > 0), else 0.
Received(m) == IF m.offset = 0 THEN 0 ELSE 1

\* Where machine i of the chain stops: its successor's offset, or the length
\* of its longest key.
EndOf(chain, i) ==
    IF i < Len(chain) THEN chain[i + 1].offset
    ELSE LET lens == { Len(k) : k \in DOMAIN chain[i].final }
         IN  CHOOSE n \in lens : \A x \in lens : x <= n

\* C20 (as stated): in exact and partial mode alike, final[k] of every machine
\* of the chain has length len(k) - offset, and one more in a successor.
C20_FinalLength ==
    pc = "indexed" /\ err = "nil" =>
        \A i \in DOMAIN prog : \A k \in DOMAIN prog[i].final :
            Len(prog[i].final[k]) = Len(k) - prog[i].offset + Received(prog[i])

\* C20 (amended): in exact mode final[k] runs from the machine's offset to
\* its end (the successor's offset, or len(k) in the last machine), plus the
\* collapsed value in a successor; in partial mode it covers at least the
\* offsets before the last rune of k and at most the offsets to the end.
C20_FinalLengthToEnd ==
    pc = "indexed" /\ err = "nil" =>
        \A i \in DOMAIN prog : \A k \in DOMAIN prog[i].final :
            LET m == prog[i]
                n == Len(m.final[k])
                end == EndOf(prog, i)
                upTo(e) == e - m.offset + Received(m)
            IN  IF ParseFlags(flags).partialMatch
                THEN /\ n >= upTo(Min({Len(k) - 1, end}))
                     /\ n <= upTo(end)
                ELSE /\ n = upTo(end)
                     /\ i = Len(prog) => n = upTo(Len(k))

\* A chain of two machines in exact mode: the first machine's final values
\* stop at the second machine's offset.
C20_Witness ==
    /\ pc = "indexed" /\ err = "nil"
    /\ ~ParseFlags(flags).partialMatch
    /\ Len(prog) = 2
    /\ \E k \in DOMAIN prog[1].final :
          /\ Len(prog[1].final[k]) = prog[2].offset
          /\ Len(prog[1].final[k]) < Len(k)
          /\ Len(prog[2].final[k]) = Len(k) - prog[2].offset + 1

---------------------------------------------------------------------------
(* The machines Generate builds for one length *)

\* Lines 489-650 of Generate for the length l: the working case map, the
\* chain as indexKeys leaves it (indexed) and as checkAmbiguity leaves it
\* (checked).
BuildLength(oc, fl, ord, ceiling, l) ==
    LET equiv == makeEquivalents(fl)
        fs0 == ParseFlags(fl)
        fs == [fs0 EXCEPT !.stop = expand(equiv, @, <<>>),
                          !.ignore = expand(equiv, @, <<>>),
                          !.ignoreExcept = expand(equiv, @, <<>>)]
        w == makeCases(oc, ord, fs)
        state == newStateMachine(BucketKeys(w.cases, fs.partialMatch, l))
        ix == indexKeys(state, ceiling, equiv, fs.partialMatch, w.order)
        amb == IF ix.panic THEN [chain |-> <<>>, e |-> <<>>, panic |-> TRUE]
               ELSE checkAmbiguity(ix.chain, w.cases, oc, w.backToOrig, w.mapped, w.order)
    IN  [l |-> l, fs |-> fs, equiv |-> equiv, cases |-> w.cases, order |-> w.order,
         indexed |-> IF ix.panic THEN <<>> ELSE ix.chain,
         checked |-> IF amb.panic THEN <<>> ELSE amb.chain,
         e |-> amb.e,
         panic |-> amb.panic]

\* The lengths of the keys of the working case map.
WorkingLengths(oc, fl, ord) ==
    LET equiv == makeEquivalents(fl)
        fs0 == ParseFlags(fl)
        fs == [fs0 EXCEPT !.stop = expand(equiv, @, <<>>),
                          !.ignore = expand(equiv, @, <<>>),
                          !.ignoreExcept = expand(equiv, @, <<>>)]
    IN  { Len(k) : k \in DOMAIN makeCases(oc, ord, fs).cases }

\* One pass of the loop of line 645 up to the return of line 649.
DoBuild ==
    /\ pc = "start"
    /\ \E ord \in Perms(DOMAIN origCases) :
       \E l \in WorkingLengths(origCases, flags, ord) :
       \E b \in { BuildLength(origCases, flags, ord, maxState, l) } :
            /\ prog' = b
            /\ err' = IF b.panic THEN "panic"
                      ELSE IF Len(b.e) > 0 THEN "Ambiguous" ELSE "nil"
            /\ ambiguous' = b.e
            /\ input' = l
    /\ pc' = "built"
    /\ UNCHANGED <<origCases, flags, maxState, badFlags, out, writer>>

NextBuild == DoBuild

\* Every mode with keys of up to MaxKeyLen runes, and longer keys under low
\* ceilings for the chains.
BuildFlags ==
    AmbigFlags \cup { <<Equivalent(<<97, 98>>)>>, <<HasPrefix, Equivalent(<<97, 98>>)>>,
                      <<Equivalent(<<97, 98>>), Ignore(<<97>>)>>,
                      <<HasSuffix, Equivalent(<<97, 98>>), StopUpon(<<98>>)>> }

\* Under HasPrefix a chain needs keys of MaxKeyLen + 2 runes that differ at
\* every offset; a shorter key ends before the chain is cut.
PrefixChainMaps ==
    LET long(r) == [i \in 1..(MaxKeyLen + 2) |-> r]
    IN  { [k \in { long(97), long(98), short } |-> "1"] :
            short \in { <<97>>, <<97, 98>>, <<98, 98, 98>> } }

InitBuild ==
    \/ InitWith(CaseMaps(Keys({97, 98, 46})), BuildFlags, {MaxUint64})
    \/ InitWith(CaseMaps(LongKeys), { <<>>, <<Equivalent(<<97, 98>>)>> }, Ceilings)
    \/ InitWith(PrefixChainMaps, { <<HasPrefix>> }, Ceilings)

SpecBuild == InitBuild /\ [][NextBuild]_vars

\* The values of the arms of an emitted "switch state" are pairwise different.
DistinctArms(arms) == \A i, j \in DOMAIN arms : i # j => arms[i][1] # arms[j][1]

\* The state switches written for a bucket have distinct arms: the one of
\* each noMore list, the collapse switches between machines and, without
\* partial matching, the final switch.
StateSwitchesDistinct(b) ==
    LET em == EmitBucket(b.l, b.checked, b.cases, b.order)
    IN  /\ \A i \in DOMAIN em.machines :
            /\ DistinctArms(em.machines[i].collapse)
            /\ \A o \in DOMAIN em.machines[i].noMore :
               \A r \in DOMAIN em.machines[i].noMore[o] :
                  DistinctArms(em.machines[i].noMore[o][r])
        /\ b.fs.partialMatch \/ em.single \/ DistinctArms(em.final)

\* C21: in an unchained bucket built without partial matching two keys have
\* the same finalState exactly if they are equivalent rune for rune; in every
\* mode, once checkAmbiguity has succeeded, the keys left in the final switch
\* and in each noMore list have pairwise different finalState, so that no
\* emitted state switch has two arms with one value.
C21_UniqueStates ==
    pc = "built" /\ err # "panic" =>
        /\ Len(prog.indexed) = 1 /\ ~prog.fs.partialMatch =>
              \A k1, k2 \in DOMAIN prog.indexed[1].final :
                  finalState(prog.indexed[1], k1) = finalState(prog.indexed[1], k2)
                      <=> Same(flags, k1, k2)
        /\ err = "nil" =>
              /\ \A i \in DOMAIN prog.checked :
                 \A o \in DOMAIN prog.checked[i].noMore :
                 \A r \in DOMAIN prog.checked[i].noMore[o] :
                    LET ks == prog.checked[i].noMore[o][r]
                    IN  \A x, y \in DOMAIN ks :
                           x # y => finalState(prog.checked[i], ks[x])
                                        # finalState(prog.checked[i], ks[y])
              /\ ~prog.fs.partialMatch =>
                    LET last == prog.checked[Len(prog.checked)]
                    IN  \A k1, k2 \in DOMAIN last.final :
                           k1 # k2 => finalState(last, k1) # finalState(last, k2)
              /\ StateSwitchesDistinct(prog)

\* Under Equivalent('a', 'b') the keys "ab" and "ba" return one expression
\* and have one final state; checkAmbiguity leaves one of them in the switch.
C21_Witness ==
    /\ pc = "built" /\ err = "nil"
    /\ flags = <<Equivalent(<<97, 98>>)>>
    /\ DOMAIN origCases = { <<97, 98>>, <<98, 97>> }
    /\ finalState(prog.indexed[1], <<97, 98>>) = finalState(prog.indexed[1], <<98, 97>>)
    /\ Cardinality(DOMAIN prog.checked[1].final) = 1


\* The disambiguation index checkAmbiguity builds for machine i of the chain
\* indexKeys left: entries <<sum, r, ret, key>>.
IndexOf(b, i) ==
    LET nm == indexNoMore(b.indexed[i], b.cases)
    IN  IF i = Len(b.indexed) THEN nm \cup indexFinal(b.indexed[i], b.cases, nm) ELSE nm

\* The keys that share the final state sum and the terminal rune r in machine i.
Sharing(b, i, sum, r) == { t[4] : t \in { x \in IndexOf(b, i) : x[1] = sum /\ x[2] = r } }

\* The keys of machine i that checkAmbiguity left in final and, where they
\* had an entry, in noMore.
Remaining(b, i) ==
    { k \in DOMAIN b.checked[i].final :
        \A t \in NoMoreTriples(b.indexed[i]) :
            t[3] = k => t \in NoMoreTriples(b.checked[i]) }

Shadows(b, k1, k2) ==
    /\ k1 # k2
    /\ IF b.fs.partialMatch THEN k1 # <<>> /\ Begins(flags, k1, k2)
       ELSE Same(flags, k1, k2)

\* The keys checkAmbiguity removed from machine i.
Removed(b, i) == DOMAIN b.indexed[i].final \ DOMAIN b.checked[i].final

Weights(m) == UNION { Range(m.changes[o]) : o \in DOMAIN m.changes }

\* The sums of the keys the successor received, before the cut.
SumsBefore(m, s) == { finalState(m, k) : k \in DOMAIN s.final }

\* C23: when indexKeys overflows at position p, the machine's possible,
\* changes and noMore are cut to p - offset entries; the successor has offset
\* p and holds exactly the keys that no earlier noMore entry records; two keys
\* get one collapsed integer exactly if their sums before p are equal; the
\* collapsed integers are 1..n for n distinct sums; and the successor's
\* weights begin at n + 1, so none equals a collapsed integer.
C23_Successor ==
    pc = "built" /\ err # "panic" =>
        \A i \in DOMAIN prog.indexed : i < Len(prog.indexed) =>
            LET m == prog.indexed[i]
                s == prog.indexed[i + 1]
                p == s.offset
                n == Cardinality(SumsBefore(m, s))
            IN  /\ p > m.offset
                /\ Len(m.possible) = p - m.offset
                /\ Len(m.changes) = p - m.offset
                /\ Len(m.noMore) = p - m.offset
                /\ DOMAIN s.final = { k \in DOMAIN m.final :
                                        \A o \in DOMAIN m.noMore :
                                        \A r \in DOMAIN m.noMore[o] :
                                            ~Contains(m.noMore[o][r], k) }
                /\ \A k1, k2 \in DOMAIN s.final :
                      s.final[k1][1] = s.final[k2][1]
                          <=> finalState(m, k1) = finalState(m, k2)
                /\ { s.final[k][1] : k \in DOMAIN s.final } = 1..n
                /\ { c[2] : c \in Range(s.collapsed) } = 1..n
                /\ \A w \in Weights(s) : w >= n + 1
                /\ Weights(s) # {} => n + 1 \in Weights(s)

\* Under HasPrefix with the keys "a", "aaaa" and "bbbb" the chain is cut at
\* position 2: "a" ended at position 0 and is not in the successor.
C23_Witness ==
    /\ pc = "built" /\ err # "panic"
    /\ flags = <<HasPrefix>>
    /\ Len(prog.indexed) = 2
    /\ <<97>> \in DOMAIN prog.indexed[1].final
    /\ <<97>> \notin DOMAIN prog.indexed[2].final
    /\ Cardinality(DOMAIN prog.indexed[2].final) = 2
    /\ prog.indexed[2].offset = 2

---------------------------------------------------------------------------
(* uniqueAtOffset as an operation *)

\* The keys of one uniqueAtOffset call.
MaxUniqueKeys == 3

UniqueKeyLists == SeqsUpTo(Keys({65, 97, 98}), MaxUniqueKeys)

UniqueFlags ==
    { <<>>, <<Insensitive>>, <<Equivalent(<<97, 98>>)>>,
      <<Equivalent(<<65, 98>>), Insensitive>> }

\* input is the list of keys.
InitUnique ==
    /\ pc = "start"
    /\ origCases = <<>>
    /\ flags \in UniqueFlags
    /\ maxState = MaxUint64
    /\ err = "" /\ badFlags = NoBadFlags /\ ambiguous = <<>> /\ prog = <<>>
    /\ input \in UniqueKeyLists
    /\ out = ""
    /\ writer = GoodWriter

\* equiv.uniqueAtOffset(keys, offset), and the same call with the keys in
\* another order.
DoUniqueAtOffset ==
    /\ pc = "start"
    /\ \E offset \in 0..MaxKeyLen :
       \E ord \in Perms(DOMAIN input) :
        LET equiv == makeEquivalents(flags)
        IN  out' = [offset |-> offset,
                    runes |-> uniqueAtOffset(equiv, input, offset),
                    reordered |-> uniqueAtOffset(equiv, [i \in DOMAIN input |-> input[ord[i]]],
                                                 offset)]
    /\ pc' = "unique"
    /\ UNCHANGED <<origCases, flags, maxState, err, badFlags, ambiguous, prog, input, writer>>

NextUnique == DoUniqueAtOffset

SpecUnique == InitUnique /\ [][NextUnique]_vars

\* The runes the keys longer than offset have at offset.
RunesAt(keys, offset) ==
    { keys[i][offset + 1] : i \in { j \in DOMAIN keys : Len(keys[j]) > offset } }

\* C24: uniqueAtOffset returns a sorted list with exactly one rune of each
\* equivalence class that occurs at the offset among the keys longer than the
\* offset: no two returned runes are equivalent, every such key's rune is
\* equivalent to a returned one, and the classes and the length of the list
\* do not depend on the order of the keys.
C24_UniqueAtOffset ==
    pc = "unique" =>
        LET rs == out.runes
            at == RunesAt(input, out.offset)
        IN  /\ StrictlySorted(rs)
            /\ Range(rs) \subseteq at
            /\ \A i, j \in DOMAIN rs : i # j => ~Equiv(flags, rs[i], rs[j])
            /\ \A r \in at : \E i \in DOMAIN rs : Equiv(flags, r, rs[i])
            /\ Len(out.reordered) = Len(rs)
            /\ \A i \in DOMAIN rs : \E j \in DOMAIN out.reordered :
                  Equiv(flags, rs[i], out.reordered[j])

\* Under Insensitive the keys "a", "A", "b" give 'a' and 'b' at offset 0, and
\* 'A' and 'b' when "A" comes first.
C24_Witness ==
    /\ pc = "unique"
    /\ flags = <<Insensitive>>
    /\ input = << <<97>>, <<65>>, <<98>> >>
    /\ out.offset = 0
    /\ out.runes = <<97, 98>>
    /\ out.reordered = <<65, 98>>


\* The key the working case map holds for key, lines 549-602, under the
\* flags fs: the only key of the working map of a one-key case map.
MangledKey(fs, key) ==
    CHOOSE m \in DOMAIN makeCases([k \in {key} |-> "1"], <<key>>, fs).cases : TRUE

\* C25 (as stated): the mangled form of a key is the key, reversed first
\* under HasSuffix, cut before its first stop rune and stripped of its
\* ignored runes; it holds no stop rune and no ignored rune, mangling it again
\* returns it unchanged, and the working case map has one entry per distinct
\* mangled key.
C25_Mangled ==
    pc = "built" =>
        /\ DOMAIN prog.cases = { Image(flags, k) : k \in DOMAIN origCases }
        /\ \A m \in DOMAIN prog.cases : \A i \in DOMAIN m :
              ~IsStop(flags, m[i]) /\ ~IsIgnored(flags, m[i])
        /\ \A m \in DOMAIN prog.cases : MangledKey(prog.fs, m) = m

\* C25 (amended): as stated, except that a mangled key is unchanged by the
\* cut and the stripping only: under HasSuffix mangling reverses a key, so
\* mangling a mangled key gives its reversal.
C25_MangledOnce ==
    pc = "built" =>
        /\ DOMAIN prog.cases = { Image(flags, k) : k \in DOMAIN origCases }
        /\ \A m \in DOMAIN prog.cases : \A i \in DOMAIN m :
              ~IsStop(flags, m[i]) /\ ~IsIgnored(flags, m[i])
        /\ \A m \in DOMAIN prog.cases :
              /\ MangledKey([prog.fs EXCEPT !.backwards = FALSE], m) = m
              /\ MangledKey(prog.fs, m) = IF prog.fs.backwards THEN reverseString(m) ELSE m

\* Under HasSuffix and StopUpon('.') the key "ab" is held as "ba", and the
\* key ".a" as "a".
C25_Witness ==
    /\ pc = "built"
    /\ flags = <<HasSuffix, StopUpon(<<46>>)>>
    /\ DOMAIN origCases = { <<97, 98>>, <<46, 97>> }
    /\ DOMAIN prog.cases = { <<98, 97>>, <<97>> }

---------------------------------------------------------------------------
(* Ambiguity errors and really ambiguous case sets *)

\* Key k matches the input s under the flags: the logical string of s (read
\* from the end under HasSuffix) is the mangled key, or begins with it under
\* HasPrefix and HasSuffix.
Matches(fl, k, s) ==
    IF HasFlag(fl, "HasPrefix") \/ HasFlag(fl, "HasSuffix")
    THEN Begins(fl, Image(fl, k), Image(fl, s))
    ELSE Same(fl, Image(fl, k), Image(fl, s))

\* Some input is matched by two keys with different return expressions.
ReallyAmbiguous ==
    \E k1, k2 \in DOMAIN origCases :
        /\ origCases[k1] # origCases[k2]
        /\ \E s \in Inputs : Matches(flags, k1, s) /\ Matches(flags, k2, s)

\* C26: Generate returns an Ambiguous error only for a case set in which some
\* input is matched by two keys with different return expressions.
C26_OnlyIfAmbiguous ==
    pc = "generated" /\ err = "Ambiguous" => ReallyAmbiguous

\* The same without HasSuffix together with StopUpon, Ignore or IgnoreExcept.
C26_ForwardOnly ==
    pc = "generated" /\ err = "Ambiguous"
        /\ ~(HasFlag(flags, "HasSuffix") /\ IsMangling(flags)) => ReallyAmbiguous

---------------------------------------------------------------------------
(* The emitted matcher, statement by statement *)

\* A point of a run of the emitted matcher: the length block b, the machine
\* m whose switches are being read, the position off, the variables state
\* and ignored, and where control is: at the length test of the block
\* ("block"), at the label of position off ("position"), at the final label
\* ("final") or at a return ("done", with its result).  after is TRUE when
\* control came to the label by goto; read is the index of input the last
\* statement read (-1: none) under readIgnored ignored runes, and wide is TRUE
\* once "state +=" has gone past the width of the state variable.
StartOf ==
    [b |-> 1, m |-> 1, off |-> 0, state |-> 0, ignored |-> 0, after |-> FALSE,
     at |-> "block", result |-> "", read |-> -1, readIgnored |-> 0, wide |-> FALSE]

\* What follows the result res of a block: a return, or the next block.
Leave(p, c, res) ==
    IF res # FALL THEN [c EXCEPT !.at = "done", !.result = res, !.read = -1]
    ELSE IF p.partialMatch \/ Mangling(p)
    THEN [c EXCEPT !.b = @ + 1, !.at = "block", !.read = -1]
    ELSE [c EXCEPT !.at = "done", !.result = NoneExpr, !.read = -1]

\* Lines 657-674: the length test of block c.b and its declarations.
BlockStep(p, in, c) ==
    IF c.b > Len(p.buckets) THEN [c EXCEPT !.at = "done", !.result = NoneExpr, !.read = -1]
    ELSE LET b == p.buckets[c.b]
             entered == IF p.partialMatch \/ Mangling(p) THEN Len(in) >= b.l
                        ELSE Len(in) = b.l
         IN  IF ~entered THEN [c EXCEPT !.b = @ + 1, !.read = -1]
             ELSE [c EXCEPT !.m = 1, !.off = 0, !.state = 0, !.ignored = 0,
                            !.after = FALSE, !.at = "position", !.read = -1]

writeIgnoreNever(in, l, ignored) == FALSE

\* writeIgnore, lines 691-698: TRUE when "len(input) <= ignored+l" makes the
\* emitted statements return none instead of "ignored++; goto label".
writeIgnore(in, l, ignored) == Len(in) <= ignored + l

\* Lines 676-757: the switch of position c.off, with the collapse switch
\* that precedes it when the next machine begins here.
PositionStep(p, in, c) ==
    LET b == p.buckets[c.b]
        last == c.b = Len(p.buckets)
        hand == /\ ~c.after
                /\ c.m < Len(b.machines)
                /\ b.machines[c.m + 1].offset = c.off
        m == IF hand THEN c.m + 1 ELSE c.m
        mach == b.machines[m]
        st == IF hand THEN SwitchState(mach.collapse, 1, c.state, c.state) ELSE c.state
        offset == c.off - mach.offset
        idx == inputAtOffset(p, in, c.off, c.ignored)
        ch == in[idx + 1]
        r == CaseOf(p, mach.possible[offset + 1], ch)
        arms == MapGet(mach.noMore[offset + 1], r, <<>>)
        hit == SwitchState(arms, 1, st, FALL)
        weight == MapGet(mach.changes[offset + 1], r, 0)
        here == [c EXCEPT !.m = m, !.state = st, !.read = idx, !.readIgnored = c.ignored]
        none == [here EXCEPT !.at = "done", !.result = NoneExpr]
        again == IF writeIgnore(in, b.l, c.ignored) THEN none
                 ELSE [here EXCEPT !.ignored = @ + 1, !.after = TRUE]
    IN  IF c.off >= b.l
        THEN IF p.partialMatch THEN Leave(p, c, IF last THEN FALL ELSE NoneExpr)
             ELSE [c EXCEPT !.at = "final", !.read = -1]
        ELSE IF ~InRange(in, idx) THEN [here EXCEPT !.at = "done", !.result = PANIC]
        ELSE IF Len(p.ignore) > 0 /\ Contains(p.ignore, ch) THEN again
        ELSE IF r # 0
        THEN IF hit # FALL THEN [here EXCEPT !.at = "done", !.result = hit]
             ELSE [here EXCEPT !.off = @ + 1, !.state = Add64(st, weight),
                               !.wide = @ \/ st + weight >= UintMod, !.after = FALSE]
        ELSE IF Len(p.ignoreExcept) > 0
        THEN IF Contains(expand(p.equiv, p.ignoreExcept, <<mach.possible[offset + 1], p.stop>>), ch)
             THEN none
             ELSE again
        ELSE IF ~p.partialMatch \/ c.off # b.l - 1 THEN none
        ELSE [here EXCEPT !.off = @ + 1, !.after = FALSE]

\* Lines 773-828: the final label, the trailing consumer and the final
\* state switch.
FinalStep(p, in, c) ==
    LET b == p.buckets[c.b]
        more == IF Ignoring(p) THEN Len(in) > b.l + c.ignored ELSE Len(in) > b.l
        idx == inputAtOffset(p, in, b.l, c.ignored)
        ch == in[idx + 1]
        result == IF b.single THEN b.final[1][2]
                  ELSE SwitchState(b.final, 1, c.state, FALL)
        here == [c EXCEPT !.read = idx, !.readIgnored = c.ignored]
        none == [here EXCEPT !.at = "done", !.result = NoneExpr]
        again == [here EXCEPT !.ignored = @ + 1, !.after = TRUE]
    IN  IF ~Mangling(p) \/ ~more THEN Leave(p, c, result)
        ELSE IF ~InRange(in, idx) THEN [here EXCEPT !.at = "done", !.result = PANIC]
        ELSE IF Contains(p.stop, ch) THEN Leave(p, here, result)
        ELSE IF Len(p.ignore) > 0
             THEN IF Contains(p.ignore, ch) THEN again ELSE none
        ELSE IF Len(p.ignoreExcept) > 0
             THEN IF Contains(expand(p.equiv, p.ignoreExcept, <<p.stop>>), ch) THEN none
                  ELSE again
        ELSE none

StepOfStay(p, in, c) == c

StepOf(p, in, c) ==
    IF c.at = "block" THEN BlockStep(p, in, c)
    ELSE IF c.at = "position" THEN PositionStep(p, in, c)
    ELSE FinalStep(p, in, c)

\* The inputs of the runs.
RunInputs == SeqsUpTo({97, 98, 46}, MaxInputLen)

\* A call of the emitted function begins.
StartRun ==
    /\ pc = "generated"
    /\ err = "nil"
    /\ \E in \in RunInputs : input' = in
    /\ out' = StartOf
    /\ pc' = "running"
    /\ UNCHANGED <<origCases, flags, maxState, err, badFlags, ambiguous, prog, writer>>

\* One statement of the emitted function.
Step ==
    /\ pc = "running"
    /\ out.at # "done"
    /\ out' = StepOf(prog, input, out)
    /\ UNCHANGED <<pc, origCases, flags, maxState, err, badFlags, ambiguous, prog, input, writer>>

\* The emitted function returns.
Return ==
    /\ pc = "running"
    /\ out.at = "done"
    /\ pc' = "returned"
    /\ UNCHANGED <<origCases, flags, maxState, err, badFlags, ambiguous, prog, input, out, writer>>

NextRun == DoGenerate \/ StartRun \/ Step \/ Return

\* Every mode with short keys, and longer keys under low ceilings for the
\* chains.
RunFlags ==
    { <<>>, <<HasPrefix>>, <<HasSuffix>>, <<StopUpon(<<46>>)>>, <<Ignore(<<46>>)>>,
      <<IgnoreExcept(<<97>>)>>, <<IgnoreExcept(<<97, 98>>), StopUpon(<<46>>)>>,
      <<HasSuffix, Ignore(<<46>>)>>, <<HasPrefix, Ignore(<<46>>)>> }

InitRun ==
    \/ InitWith(CaseMaps(Keys({97, 46})), RunFlags, {MaxUint64})
    \/ InitWith(CaseMaps(LongKeys), { <<>> }, Ceilings)

SpecRun == InitRun /\ [][NextRun]_vars

\* A run returns what matcher computes.
RunAgrees == pc = "returned" => out.result = matcher(prog, input)


\* The weights and the collapsed integers written into the matcher.
Stored(p) ==
    UNION { Weights(p.buckets[b].machines[m]) \cup
            { p.buckets[b].machines[m].collapse[i][2] :
                i \in DOMAIN p.buckets[b].machines[m].collapse } :
            <<b, m>> \in { <<b, m>> \in (DOMAIN p.buckets) \X (1..10) :
                             m \in DOMAIN p.buckets[b].machines } }

\* The matcher has a block whose chain holds more than one machine.
Chained(p) == \E b \in DOMAIN p.buckets : Len(p.buckets[b].machines) > 1

\* C27: every weight stored in changes, every collapsed integer and every
\* value the state variable of the emitted matcher holds on any input is at
\* most maxState, and "state +=" never goes past the width of the variable.
C27_StateWithinCeiling ==
    pc \in {"running", "returned"} =>
        /\ \A w \in Stored(prog) : w <= maxState
        /\ out.state <= maxState
        /\ ~out.wide

\* C27, the part that holds: the stored weights and collapsed integers are
\* at most maxState, and so is the state variable of a matcher in which no
\* machine hands over to a successor.
C27_StoredWithinCeiling ==
    pc \in {"running", "returned"} =>
        /\ \A w \in Stored(prog) : w <= maxState
        /\ ~Chained(prog) => out.state <= maxState /\ ~out.wide


\* C28: the emitted matcher never indexes its input out of range.  At the
\* label of a position off < L it reads input[off+ignored] (or
\* input[len(input)-off-1-ignored] under HasSuffix) only while
\* len(input) >= L + ignored, and the trailing consumer reads
\* input[L+ignored] only while len(input) > L + ignored.
C28_ReadsInRange ==
    [][(pc = "running" /\ out.at \in {"position", "final"} /\ out'.read # -1) =>
          LET L == prog.buckets[out.b].l
              off == IF out.at = "position" THEN out.off ELSE L
              ignored == IF Ignoring(prog) THEN out.ignored ELSE 0
          IN  /\ out'.result # PANIC
              /\ out'.read = IF prog.backwards THEN Len(input) - off - 1 - ignored
                             ELSE off + ignored
              /\ 0 <= out'.read /\ out'.read < Len(input)
              /\ out.at = "position" => off < L /\ Len(input) >= L + ignored
              /\ out.at = "final" => Len(input) > L + ignored]_vars

\* An ignoring matcher whose trailing consumer has read the last rune of its
\* input after two runes were ignored.
C28_Witness ==
    /\ pc = "running"
    /\ Ignoring(prog)
    /\ out.at = "final"
    /\ out.ignored >= 2
    /\ out.read \in {0, Len(input) - 1}


\* The emitted function is straight-line code with gotos: once called it
\* keeps executing statements until it returns.
InitRunLive ==
    \/ InitWith(CaseMaps(Keys({97, 46})), RunFlags, {MaxUint64})
    \/ InitWith(CaseMaps(LongKeys), { <<>> }, {9, MaxUint64})

SpecRunLive == InitRunLive /\ [][NextRun]_vars /\ WF_vars(Step) /\ WF_vars(Return)

\* C29: the emitted matcher terminates on every input.  Control goes back to
\* the label of a position or to the final label only with ignored
\* incremented, ignored never exceeds len(input) - L, and every call returns.
C29_Terminates ==
    /\ [][(pc = "running" /\ out.at \in {"position", "final"}
            /\ out'.at = out.at /\ out'.b = out.b /\ out'.off = out.off)
          => out'.ignored = out.ignored + 1]_vars
    /\ []((pc = "running" /\ out.at \in {"position", "final"})
          => out.ignored <= Len(input) - prog.buckets[out.b].l)
    /\ (pc = "running" ~> pc = "returned")

\* A call that went back to labels twice and then returned a match.
C29_Witness ==
    /\ pc = "returned"
    /\ out.ignored >= 2
    /\ out.result \notin {NoneExpr, PANIC}

---------------------------------------------------------------------------
(* remove and deleteKey as operations *)

\* The length of the slices given to remove.
MaxRemoveLen == 4

RemoveStrings == { <<97>>, <<98>>, <<97, 98>> }

RemoveLists == SeqsUpTo(RemoveStrings, MaxRemoveLen)

RemoveMaps ==
    { [k \in ks |-> "1"] :
        ks \in { S \in SUBSET (Keys({97, 98}) \ {<<>>}) : Cardinality(S) \in 1..(MaxKeys + 1) } }

\* input is the slice given to remove; origCases holds the keys of the
\* machine given to deleteKey.
InitRemove ==
    /\ pc = "start"
    /\ \/ origCases = <<>> /\ input \in RemoveLists
       \/ origCases \in RemoveMaps /\ input = <<>>
    /\ flags \in { <<>>, <<HasPrefix>> }
    /\ maxState = MaxUint64
    /\ err = "" /\ badFlags = NoBadFlags /\ ambiguous = <<>> /\ prog = <<>>
    /\ out = ""
    /\ writer = GoodWriter

\* remove(a, s)
DoRemove ==
    /\ pc = "start"
    /\ \E s \in RemoveStrings : out' = [s |-> s, after |-> remove(input, s)]
    /\ pc' = "removed"
    /\ UNCHANGED <<origCases, flags, maxState, err, badFlags, ambiguous, prog, input, writer>>

\* state.deleteKey(key) on an indexed machine, for a key of the machine or
\* for one it does not hold.
DoDeleteKey ==
    /\ pc = "start"
    /\ DOMAIN origCases # {}
    /\ \E ord \in Perms(DOMAIN origCases) :
       \E l \in { Len(k) : k \in DOMAIN origCases } :
       \E key \in DOMAIN origCases \cup { <<46>> } :
        LET fs == ParseFlags(flags)
            state == newStateMachine(BucketKeys(origCases, fs.partialMatch, l))
            ix == indexKeys(state, maxState, makeEquivalents(flags), fs.partialMatch, ord)
            before == ix.chain[1]
        IN  prog' = [key |-> key, before |-> before, after |-> deleteKey(before, key)]
    /\ pc' = "deleted"
    /\ UNCHANGED <<origCases, flags, maxState, err, badFlags, ambiguous, input, out, writer>>

NextRemove == DoRemove \/ DoDeleteKey

SpecRemove == InitRemove /\ [][NextRemove]_vars

\* a with every occurrence of s left out.
Without(a, s) == SelectSeq(a, LAMBDA x : x # s)

\* deleteKey took key out of final and out of every noMore list and changed
\* nothing else.
DeletedOnly(before, after, key) ==
    /\ DOMAIN after.final = DOMAIN before.final \ {key}
    /\ \A k \in DOMAIN after.final : after.final[k] = before.final[k]
    /\ DOMAIN after.noMore = DOMAIN before.noMore
    /\ \A i \in DOMAIN before.noMore :
        /\ DOMAIN after.noMore[i] = DOMAIN before.noMore[i]
        /\ \A r \in DOMAIN before.noMore[i] :
             after.noMore[i][r] = Without(before.noMore[i][r], key)
    /\ after.possible = before.possible
    /\ after.changes = before.changes

\* C30: deleteKey(k) removes k from final and from every noMore list and
\* leaves every other key's final entry, noMore membership and order as they
\* were; remove(a, s) returns a without any occurrence of s, also when s
\* occurs several times in a row, the other elements in their order.
C30_RemoveAndDelete ==
    /\ pc = "removed" => out.after = Without(input, out.s)
    /\ pc = "deleted" => DeletedOnly(prog.before, prog.after, prog.key)

\* C30, the part that holds: deleteKey as stated, and remove on a slice in
\* which s does not occur twice in a row.
C30_RemoveSeparated ==
    /\ (pc = "removed" /\ \A n \in 1..(Len(input) - 1) : input[n] # out.s \/ input[n + 1] # out.s)
          => out.after = Without(input, out.s)
    /\ pc = "deleted" => DeletedOnly(prog.before, prog.after, prog.key)

=============================================================================
